---- MODULE Spec2Model ----
(***************************************************************************)
(* Model of the report export worker (sifthub backend-reporting-service).  *)
(*                                                                         *)
(* Two drivers feed jobs to a router:                                      *)
(*   - the batch handler  handle_records -> process_message ->             *)
(*     handle_event -> export_event_handler.process_export_request, which  *)
(*     runs the streaming builders (generate_excel_streaming) and the      *)
(*     sinks of delivery_processors/;                                      *)
(*   - the long-polling SQSConsumer ->                                     *)
(*     ExportService.process_export_request with the processors of         *)
(*     services/export_factory.py.                                         *)
(* The source tree holds two generations of processors; the batch path     *)
(* is modelled with the streaming one (processors/, insights_processors/,  *)
(* usage_logs_processors/, delivery_processors/), whose type registry      *)
(* get_*_type_processor is not part of the tree.                           *)
(* One batch of at most MaxRecords messages is modelled.  eventId is       *)
(* unique to a job, so the job messages of a batch are deliveries of one   *)
(* job message and address one audit row; a batch also holds bodies that   *)
(* are not JSON and messages without eventId.  The environment (audit      *)
(* store, object store, analytics service, queue) fails at most MaxFaults  *)
(* times per batch.  The long-polling path reads neither the number of     *)
(* items upstream nor the bucket, so its batches start with one value of   *)
(* each.  BatchSpec is the batch handler on batches of job messages.  Two   *)
(* more specifications follow one paginated reader (PageSpec) and one put  *)
(* of S3Client (UploadSpec) alone, and RedeliverySpec lets a second        *)
(* invocation of the batch handler start on a redelivered message.         *)
(* ConsumerSpec is the long-polling consumer with its signal handler and   *)
(* the visibility timeout of a batch.  RegistrySpec asks the processor     *)
(* registries for a (module, type, subType), SuffixSpec computes the       *)
(* suffix of a filter wherever the tree computes it, FrequencySpec writes  *)
(* one distribution row with each writer, FaqSpec follows the streams of   *)
(* one FAQ build, and SheetSpec the rows of a logs sheet while the pages   *)
(* of one stream are appended.  SinkSpec gives one builder result to the   *)
(* download sink, CacheSpec follows the GUID lookups through the           *)
(* USER_ROLE_ACCESS hash, PollSpec the polling loop of the consumer over a *)
(* queue longer than one receive (PollLiveSpec adds the fairness of the    *)
(* event loop), and AckSpec gives one message to both entry points.        *)
(***************************************************************************)
EXTENDS Integers, Sequences, FiniteSets, TLC

\* ---------------------------------------------------------------- bounds
MaxRecords == 2
MaxClock == 1
PageSize == 2
MaxItems == 3
MaxFaults == 1
MaxSize == 11
MaxTokens == 3
MaxCount == 3
MaxLookups == 3

\* ------------------------------------------------------ program constants
MAX_PAGES == 1000
\* upload_file_stream: the multipart threshold and the part size, in MiB.
MULTIPART_THRESHOLD == 5
PART_SIZE == 5
\* _add_category_batch_to_excel: the number the streaming generator takes for
\* the total of a frequency.
PLACEHOLDER_TOTAL == 1000

None == "None"
NoTime == 0 - 1
NoObject == 0 - 1
KeyNames == <<"k0", "k1", "k2", "k3">>
UrlNames == <<"url0", "url1", "url2", "url3">>
BucketConfigs == {"sh-reporting-dev", ""}

ExportStatus == {"PENDING", "QUEUED", "PROCESSING", "SUCCESS", "FAILED"}
ExportMode == {"download", "email"}
ExportModule == {"insights", "usageLogs"}

FAQ == [module |-> "insights", type |-> "responseGeneration", subType |-> "frequentAskedQuestions"]
ANSWER == [module |-> "usageLogs", type |-> "answer", subType |-> "logs"]
UNKNOWN == [module |-> "insights", type |-> "other", subType |-> "other"]
Reports == {FAQ, ANSWER, UNKNOWN}

\* The bodies a broker message can carry: text that is not JSON, a JSON
\* object without eventId, and a complete job.
BadJson == [json |-> FALSE, eventId |-> None, mode |-> None, report |-> UNKNOWN]
Poison == [json |-> TRUE, eventId |-> None, mode |-> "download", report |-> FAQ]
JobBodies == [json : {TRUE}, eventId : {"e1"}, mode : ExportMode, report : Reports]

Att == 1..MaxRecords
Drivers == {"lambda", "consumer"}

VARIABLES
    driver,               \* which entry point runs this batch
    records,              \* the batch: sequence of message bodies, messageId = position
    idx,                  \* handle_records: position of the record being processed
    job,                  \* per record: the state of its process_message / pipeline
    writes,               \* per record: the audit writes its attempt issued
    notifs,               \* per record: the notifications its attempt handed to the publisher
    audit,                \* the audit row of (eventId, clientId)
    store,                \* object storage: key -> data rows of the workbook, or NoObject
    upstream,             \* number of items the analytics list endpoints hold
    bucket_name,          \* aws_configs.AWS_S3_BUCKET, fixed at process start
    now,                  \* wall clock, in seconds
    processed,            \* per record: what process_message returned
    batch_item_failures,  \* handle_records: the list being built
    response,             \* handle_records: the returned batch response
    deleted,              \* consumer: messages deleted from the queue
    running,              \* consumer: the polling flag
    cpc,                  \* consumer: position of the polling loop
    faults,               \* failures of the environment so far
    stream,               \* a paginated reader of the analytics clients at work
    upload,               \* S3Client.upload_file_stream at work on one file
    signalled,            \* consumer: SIGINT or SIGTERM was delivered to the process
    expired,              \* consumer: the visibility timeout of the batch has passed
    lookup,               \* a registry asked for the builder of one (module, type, subType)
    suffix,               \* the sheet suffix of one message, as computed in each place
    freq,                 \* the frequency cell of one distribution row, as each writer fills it
    faq,                  \* the FAQ builder at work on the streams of one job
    sheet,                \* the logs sheet of one usage-logs job and the stream appended to it
    sink,                 \* the download sink at work on one export result
    cache,                \* the USER_ROLE_ACCESS hash and the GUID lookups made through it
    poll,                 \* the polling loop of the long-running consumer and its tasks in flight
    ack                   \* one message given to the batch handler and to the consumer

vars == <<signalled, expired, lookup, suffix, freq, faq, sheet, sink, cache, poll, ack, driver, records, idx, job, writes, notifs, audit, store, upstream, bucket_name, now,
          processed, batch_item_failures, response, deleted, running, cpc, faults, stream, upload>>

Keys == {KeyNames[t + 1] : t \in 0..MaxClock}

NoHandle == [s3_key |-> None, download_url |-> None, s3_bucket |-> None]

IdleJob ==
    [pc |-> "idle", start_time |-> 0, export_file |-> None, handle |-> NoHandle,
     delivery_result |-> [success |-> FALSE, s3_bucket |-> None, download_url |-> None],
     s3_key |-> None, page |-> 1, got |-> 0,
     storage_fault |-> FALSE, upstream_fault |-> 0, ops |-> <<>>, notifier_failed |-> FALSE,
     keys |-> {}]

AuditRow0 == [status |-> "QUEUED", total_time |-> NoTime, s3_bucket |-> None, download_url |-> None]

\* No paginated reader is at work.
NoStream == [reader |-> None, pc |-> "idle", page |-> 1, requested |-> 0, requests |-> 0,
             yielded |-> 0, got |-> 0]

\* No put is at work.
NoUpload ==
    [pc |-> "idle", key |-> None, file_size |-> 0, offset |-> 0, part_number |-> 1,
     parts |-> <<>>, put_calls |-> 0, complete_calls |-> 0, completed_with |-> <<>>,
     upload_id |-> None, multipart |-> None, abort_issued |-> FALSE, result |-> None]

\* No registry is being asked.
NoLookup == [pc |-> "idle", factory |-> None, report |-> UNKNOWN, processor |-> None,
             builder |-> None]

\* No suffix is being computed.
NoSuffix ==
    [pc |-> "idle", filter |-> [present |-> FALSE, status |-> FALSE, data |-> <<>>],
     sheet |-> None, key |-> None, filename |-> None, service_sheet |-> None]

\* No distribution row is being written.
NoFreq == [pc |-> "idle", totalQuestions |-> 0, totalQuestionsAnswered |-> 0,
           sheet_suffix |-> "All", distribution |-> 0,
           category |-> NoObject, subcategory |-> NoObject, service_category |-> NoObject,
           service_subcategory |-> NoObject]

\* No FAQ builder is followed.
NoFaq == [pc |-> "idle", categories |-> 0, subcategories |-> 0, questions |-> 0, page |-> 1,
          category_ids |-> <<>>, cur |-> 1, sheet1 |-> <<>>, sheet2 |-> <<>>, sheet3 |-> <<>>,
          calls |-> <<>>, failed |-> {}, result |-> None]

\* No logs sheet is followed.
NoSheet == [pc |-> "idle", data |-> <<>>, page |-> 1, batch |-> <<>>, ws |-> <<>>]

\* No sink is followed.
NoSink == [pc |-> "idle", export_result |-> [kind |-> "dict", s3_key |-> None, download_url |-> None, s3_bucket |-> None],
           s3_key |-> None, storage |-> <<>>, notified |-> <<>>, published |-> FALSE,
           result |-> [success |-> FALSE, s3_bucket |-> None, s3_key |-> None, download_url |-> None]]

\* No GUID lookup is followed.
NoCache == [pc |-> "idle", hash |-> {}, hash_key |-> <<>>, lookups |-> <<>>]

\* The polling loop before start_consuming: no receive issued, no task created.
NoPoll ==
    [pc |-> "init", running |-> FALSE, visible |-> 0, batch |-> 0, in_flight |-> 0,
     finished |-> 0, raised |-> 0, erred |-> FALSE]

\* No message is given to the two handlers.
NoAck == [record |-> BadJson, outcome |-> None, processed |-> None, batch_handler |-> None,
          consumer |-> None]

Init ==
    /\ driver \in Drivers
    /\ \E body \in JobBodies :
         records \in UNION {[1..n -> {BadJson, Poison, body}] : n \in 1..MaxRecords}
    /\ idx = 1
    /\ job = [i \in Att |-> IdleJob]
    /\ writes = [i \in Att |-> <<>>]
    /\ notifs = [i \in Att |-> <<>>]
    /\ audit = AuditRow0
    /\ store = [k \in Keys |-> NoObject]
    /\ upstream \in IF driver = "lambda" THEN 0..MaxItems ELSE {0}
    /\ bucket_name \in IF driver = "lambda" THEN BucketConfigs ELSE {"sh-reporting-dev"}
    /\ now = 0
    /\ processed = [i \in Att |-> None]
    /\ batch_item_failures = <<>>
    /\ response = None
    /\ deleted = {}
    /\ running = FALSE
    /\ cpc = "init"
    /\ faults = 0
    /\ stream = NoStream
    /\ upload = NoUpload
    /\ signalled = FALSE
    /\ expired = FALSE
    /\ lookup = NoLookup
    /\ suffix = NoSuffix
    /\ freq = NoFreq
    /\ faq = NoFaq
    /\ sheet = NoSheet
    /\ sink = NoSink
    /\ cache = NoCache
    /\ poll = NoPoll
    /\ ack = NoAck

\* ------------------------------------------------------------ environment

\* The outcomes a call to the audit store, the object store, the analytics
\* service or the queue can have: it succeeds, or it fails while the batch
\* has met fewer than MaxFaults failures.
Outcomes == IF faults < MaxFaults THEN BOOLEAN ELSE {TRUE}

Fault(ok) == faults' = IF ok THEN faults ELSE faults + 1

\* ------------------------------------------------------------ audit store

Truthy(v) == v /= None /\ v /= ""

\* An update whose $set carries every field of the call, absent ones as null.
update_status_replacing(row, status, total_time, s3_bucket, download_url, applied) ==
    IF ~applied THEN row
    ELSE [status |-> status, total_time |-> total_time, s3_bucket |-> s3_bucket,
          download_url |-> download_url]

\* update_audit_log_status / ReportAuditLogDataStore.update_status: the $set
\* carries status always, total_time when not None (NoTime), s3_bucket and download_url
\* when truthy.  A write that matches no row, or raises, changes nothing.
update_status(row, status, total_time, s3_bucket, download_url, applied) ==
    IF ~applied THEN row
    ELSE [status |-> status,
          total_time |-> IF total_time /= NoTime THEN total_time ELSE row.total_time,
          s3_bucket |-> IF Truthy(s3_bucket) THEN s3_bucket ELSE row.s3_bucket,
          download_url |-> IF Truthy(download_url) THEN download_url ELSE row.download_url]

AuditWrite(status, total_time, s3_bucket, download_url) ==
    [status |-> status, total_time |-> total_time, s3_bucket |-> s3_bucket,
     download_url |-> download_url]

\* The router issues one audit write for attempt i; the store applies it or
\* misses the row.
update_audit_log_status(i, status, total_time, s3_bucket, download_url) ==
    /\ writes' = [writes EXCEPT ![i] =
                    Append(@, AuditWrite(status, total_time, s3_bucket, download_url))]
    /\ \E applied \in Outcomes :
         /\ audit' = update_status(audit, status, total_time, s3_bucket, download_url, applied)
         /\ Fault(applied)

\* --------------------------------------------------------------- notifier

\* FirebasePublisher.publish_export_notification builds the message body.
notification_data(eventId, download_url, status) ==
    [eventId |-> eventId, type |-> "EXPORT_COMPLETE", status |-> status,
     downloadUrl |-> download_url,
     message |-> IF status = "SUCCESS" THEN "Your export is ready for download"
                 ELSE "Export failed"]

\* send_firebase_notification: the publisher is handed the notification; a
\* failing GUID lookup, publisher lookup or document write is logged and
\* swallowed.
send_firebase_notification(i, download_url, status) ==
    notifs' = [notifs EXCEPT ![i] =
                 Append(@, notification_data(records[i].eventId, download_url, status))]

\* FirebasePublisher.publish_at_user: the document is written when the GUID
\* lookup and the write succeed; otherwise the publisher gives False or
\* raises.  The caller remembers nothing of it; the model notes on the job
\* that a notification of it was lost.
publish_at_user(j, published) == [j EXCEPT !.notifier_failed = @ \/ ~published]

\* ------------------------------------------------------- storage adapter

\* S3Client.generate_s3_key / the key built in _initialize_excel_structure:
\* exports/{clientId}/{eventId}/{name}_{UTC timestamp to the second}.xlsx.
\* All jobs of the batch share clientId, eventId and name, so the key is a
\* function of the second in which it is built.
generate_s3_key(t) == KeyNames[t + 1]

\* S3Client.generate_presigned_url of a key.
presigned_url(key) ==
    UrlNames[(CHOOSE t \in 0..MaxClock : KeyNames[t + 1] = key) + 1]

\* ------------------------------------------------------ analytics client

Min(a, b) == IF a < b THEN a ELSE b
Max(a, b) == IF a > b THEN a ELSE b

\* get_answer_logs / get_category_distribution: the number of items of page
\* `page`; a status other than 200, an exception or an empty data list all
\* give None, modelled as 0 items.
get_page(n, page, batch_size, ok) ==
    IF ok THEN Max(0, Min(batch_size, n - (page - 1) * batch_size)) ELSE 0

\* --------------------------------------------------------------- registry

\* get_insights_type_processor / get_usage_logs_type_processor: the type
\* processor registered for (module, type, subType).
get_type_processor(report) ==
    IF report.module = "insights" /\ report.type = "responseGeneration"
          /\ report.subType = "frequentAskedQuestions"
      THEN "ResponseGenerationProcessor"
    ELSE IF report.module = "usageLogs" /\ report.type \in {"answer", "autofill", "AITeammate"}
      THEN "UsageLogsTypeProcessor"
    ELSE None

\* ------------------------------------------------- batch handler (lambda)

SetJob(i, j) == job' = [job EXCEPT ![i] = j]

\* process_message and handle_event up to the call of process_export_request:
\* a body that is not JSON raises in jsonutil.convert, a body without a
\* required field raises in SQSExportMessage(**event_context); both are
\* caught and give False.  Otherwise the job attempt starts.
process_message(i) ==
    /\ driver = "lambda"
    /\ idx = i /\ i <= Len(records)
    /\ job[i].pc = "idle"
    /\ IF ~records[i].json \/ records[i].eventId = None
         THEN /\ SetJob(i, [job[i] EXCEPT !.pc = "returned"])
              /\ processed' = [processed EXCEPT ![i] = "False"]
         ELSE /\ SetJob(i, [job[i] EXCEPT !.pc = "mark_processing", !.start_time = now])
              /\ UNCHANGED processed
    /\ UNCHANGED <<faults, stream, upload, signalled, expired, lookup, suffix, freq, faq, sheet, sink, cache, poll, ack, driver, records, idx, writes, notifs, audit, store, upstream, bucket_name,
                   now, batch_item_failures, response, deleted, running, cpc>>

\* The router without its PROCESSING write: the builder is reached with no
\* audit write issued.
mark_processing_unwritten(i) ==
    /\ driver = "lambda"
    /\ job[i].pc = "mark_processing"
    /\ SetJob(i, [job[i] EXCEPT !.pc = "dispatch"])
    /\ UNCHANGED <<faults, stream, upload, signalled, expired, lookup, suffix, freq, faq, sheet, sink, cache, poll, ack, driver, records, idx, writes, notifs, audit, store, upstream, bucket_name,
                   now, processed, batch_item_failures, response, deleted, running, cpc>>

\* process_export_request, lines 29-34: the PROCESSING write.
mark_processing(i) ==
    /\ driver = "lambda"
    /\ job[i].pc = "mark_processing"
    /\ update_audit_log_status(i, "PROCESSING", NoTime, None, None)
    /\ SetJob(i, [job[i] EXCEPT !.pc = "dispatch"])
    /\ UNCHANGED <<stream, upload, signalled, expired, lookup, suffix, freq, faq, sheet, sink, cache, poll, ack, driver, records, idx, notifs, store, upstream, bucket_name, now, processed,
                   batch_item_failures, response, deleted, running, cpc>>

\* ModuleProcessorFactory.create_processor finds a module processor for both
\* modules; its process_export looks up the type processor and returns None
\* when there is none, else runs the streaming generator.
process_export(i) ==
    /\ driver = "lambda"
    /\ job[i].pc = "dispatch"
    /\ records[i].report.module \in ExportModule
    /\ IF get_type_processor(records[i].report) = None
         THEN SetJob(i, [job[i] EXCEPT !.pc = "built", !.export_file = None])
         ELSE SetJob(i, [job[i] EXCEPT !.pc = "init_excel"])
    /\ UNCHANGED <<faults, stream, upload, signalled, expired, lookup, suffix, freq, faq, sheet, sink, cache, poll, ack, driver, records, idx, writes, notifs, audit, store, upstream, bucket_name,
                   now, processed, batch_item_failures, response, deleted, running, cpc>>

\* The skeleton step handing out the key without uploading the workbook.
initialize_excel_structure_unuploaded(i) ==
    /\ driver = "lambda"
    /\ job[i].pc = "init_excel"
    /\ SetJob(i, [job[i] EXCEPT !.pc = "fetch", !.s3_key = generate_s3_key(now), !.page = 1])
    /\ UNCHANGED <<faults, stream, upload, signalled, expired, lookup, suffix, freq, faq, sheet, sink, cache, poll, ack, driver, records, idx, writes, notifs, audit, store, upstream,
                   bucket_name, now, processed, batch_item_failures, response, deleted, running,
                   cpc>>

\* _initialize_excel_structure: the skeleton workbook is uploaded under a
\* fresh timestamped key; a failed upload ends the build with None.
initialize_excel_structure(i) ==
    /\ driver = "lambda"
    /\ job[i].pc = "init_excel"
    /\ LET key == generate_s3_key(now) IN
       \E uploaded \in Outcomes :
         /\ Fault(uploaded)
         /\ IF uploaded
           THEN /\ store' = [store EXCEPT ![key] = 0]
                /\ SetJob(i, [job[i] EXCEPT !.pc = "fetch", !.s3_key = key, !.page = 1,
                                !.ops = Append(@, "upload_skeleton"),
                                !.keys = @ \cup {key}])
           ELSE /\ UNCHANGED store
                /\ SetJob(i, [job[i] EXCEPT !.pc = "built", !.export_file = None,
                                !.ops = Append(@, "upload_skeleton")])
    /\ UNCHANGED <<stream, upload, signalled, expired, lookup, suffix, freq, faq, sheet, sink, cache, poll, ack, driver, records, idx, writes, notifs, audit, upstream, bucket_name,
                   now, processed, batch_item_failures, response, deleted, running, cpc>>

\* One turn of get_*_batches up to its yield: fetch page `page`; no response
\* or no data ends the stream, otherwise the page is handed to the builder.
fetch_batch(i) ==
    /\ driver = "lambda"
    /\ job[i].pc = "fetch"
    /\ \E ok \in Outcomes :
         LET n == get_page(upstream, job[i].page, PageSize, ok) IN
         /\ Fault(ok)
         /\ IF n = 0
           THEN SetJob(i, [job[i] EXCEPT !.pc = "presign", !.got = 0,
                             !.upstream_fault = IF ok THEN @ ELSE job[i].page])
           ELSE SetJob(i, [job[i] EXCEPT !.pc = "append", !.got = n])
    /\ UNCHANGED <<stream, upload, signalled, expired, lookup, suffix, freq, faq, sheet, sink, cache, poll, ack, driver, records, idx, writes, notifs, audit, store, upstream, bucket_name,
                   now, processed, batch_item_failures, response, deleted, running, cpc>>

\* The generator taking a full page for the last one.
next_page_pc_full_is_last(got, page, batch_size) ==
    IF got <= batch_size THEN "presign"
    ELSE IF page + 1 > MAX_PAGES THEN "presign"
    ELSE "fetch"

\* The generator after its yield: a short page is the last one, and no page
\* beyond MAX_PAGES is requested.
next_page_pc(got, page, batch_size) ==
    IF got < batch_size THEN "presign"
    ELSE IF page + 1 > MAX_PAGES THEN "presign"
    ELSE "fetch"

\* The append cycle putting the workbook back under another key than the one
\* it was downloaded from.
add_batch_to_excel_other_key(i) ==
    /\ driver = "lambda"
    /\ job[i].pc = "append"
    /\ \E downloaded \in Outcomes, uploaded \in Outcomes :
         LET key == job[i].s3_key
             other == CHOOSE k \in Keys : k /= key
             written == downloaded /\ uploaded /\ store[key] /= NoObject
         IN
         /\ downloaded \/ uploaded
         /\ Fault(downloaded /\ uploaded)
         /\ store' = IF written THEN [store EXCEPT ![other] = store[key] + job[i].got] ELSE store
         /\ SetJob(i, [job[i] EXCEPT
                         !.pc = next_page_pc(job[i].got, job[i].page, PageSize),
                         !.page = IF job[i].got < PageSize THEN @ ELSE @ + 1,
                         !.storage_fault = @ \/ ~written,
                         !.keys = IF written THEN @ \cup {other} ELSE @,
                         !.ops = IF downloaded THEN @ \o <<"download", "upload">>
                                 ELSE Append(@, "download")])
    /\ UNCHANGED <<stream, upload, signalled, expired, lookup, suffix, freq, faq, sheet, sink, cache, poll, ack, driver, records, idx, writes, notifs, audit, upstream, bucket_name,
                   now, processed, batch_item_failures, response, deleted, running, cpc>>

\* _add_*_batch_to_excel: download the workbook, append the rows of the page,
\* upload it again.  A failed download or upload is logged and swallowed; after
\* a failed download no upload is issued.
add_batch_to_excel(i) ==
    /\ driver = "lambda"
    /\ job[i].pc = "append"
    /\ \E downloaded \in Outcomes, uploaded \in Outcomes :
         LET key == job[i].s3_key
             written == downloaded /\ uploaded /\ store[key] /= NoObject
         IN
         /\ downloaded \/ uploaded
         /\ Fault(downloaded /\ uploaded)
         /\ store' = IF written THEN [store EXCEPT ![key] = @ + job[i].got] ELSE store
         /\ SetJob(i, [job[i] EXCEPT
                         !.pc = next_page_pc(job[i].got, job[i].page, PageSize),
                         !.page = IF job[i].got < PageSize THEN @ ELSE @ + 1,
                         !.storage_fault = @ \/ ~written,
                         !.keys = IF written THEN @ \cup {key} ELSE @,
                         !.ops = IF downloaded THEN @ \o <<"download", "upload">>
                                 ELSE Append(@, "download")])
    /\ UNCHANGED <<stream, upload, signalled, expired, lookup, suffix, freq, faq, sheet, sink, cache, poll, ack, driver, records, idx, writes, notifs, audit, upstream, bucket_name,
                   now, processed, batch_item_failures, response, deleted, running, cpc>>

\* generate_excel_streaming, steps 3 and 4: mint the presigned URL and return
\* the handle, or None when the URL cannot be minted.
generate_presigned_url(i) ==
    /\ driver = "lambda"
    /\ job[i].pc = "presign"
    /\ \E minted \in Outcomes :
         /\ Fault(minted)
         /\ IF minted
           THEN SetJob(i, [job[i] EXCEPT !.pc = "built", !.export_file = "handle",
                             !.handle = [s3_key |-> job[i].s3_key,
                                         download_url |-> presigned_url(job[i].s3_key),
                                         s3_bucket |-> bucket_name],
                             !.ops = Append(@, "presign")])
           ELSE SetJob(i, [job[i] EXCEPT !.pc = "built", !.export_file = None,
                             !.ops = Append(@, "presign")])
    /\ UNCHANGED <<stream, upload, signalled, expired, lookup, suffix, freq, faq, sheet, sink, cache, poll, ack, driver, records, idx, writes, notifs, audit, store, upstream, bucket_name,
                   now, processed, batch_item_failures, response, deleted, running, cpc>>

\* ------------------------------------------------------------------ sinks

\* The download sink taking a handle for good when it carries a URL.
download_deliver_export_by_url(h) ==
    IF Truthy(h.download_url)
      THEN [success |-> TRUE, s3_bucket |-> h.s3_bucket, s3_key |-> h.s3_key,
            download_url |-> h.download_url,
            notify_status |-> "SUCCESS", notify_url |-> h.download_url]
      ELSE [success |-> FALSE, s3_bucket |-> None, s3_key |-> None, download_url |-> None,
            notify_status |-> "FAILED", notify_url |-> ""]

\* DownloadDeliveryProcessor.deliver_export on a streaming handle: forward the
\* handle and notify SUCCESS with its URL; a handle with a missing field
\* raises, is caught, notifies FAILED and reports success False.
download_deliver_export(h) ==
    IF Truthy(h.s3_key) /\ Truthy(h.download_url) /\ Truthy(h.s3_bucket)
      THEN [success |-> TRUE, s3_bucket |-> h.s3_bucket, s3_key |-> h.s3_key,
            download_url |-> h.download_url,
            notify_status |-> "SUCCESS", notify_url |-> h.download_url]
      ELSE [success |-> FALSE, s3_bucket |-> None, s3_key |-> None, download_url |-> None,
            notify_status |-> "FAILED", notify_url |-> ""]

\* EmailDeliveryProcessor.deliver_export on a streaming handle: no mail is
\* sent; the result carries the URL but no bucket, and the sink notifies
\* SUCCESS with the URL.
email_deliver_export(h) ==
    IF Truthy(h.download_url)
      THEN [success |-> TRUE, s3_bucket |-> None, download_url |-> h.download_url,
            notify_status |-> "SUCCESS", notify_url |-> h.download_url]
      ELSE [success |-> FALSE, s3_bucket |-> None, download_url |-> None,
            notify_status |-> "FAILED", notify_url |-> ""]

\* DeliveryProcessorFactory.create_processor(mode).deliver_export(...)
deliver_export(mode, h) ==
    IF mode = "download" THEN download_deliver_export(h) ELSE email_deliver_export(h)

\* ----------------------------------------------- router (event handler)

\* The builder-failure branch returning False without its FAILED write.
export_failed_unwritten(i) ==
    /\ driver = "lambda"
    /\ job[i].pc = "built" /\ job[i].export_file = None
    /\ SetJob(i, [job[i] EXCEPT !.pc = "returned"])
    /\ processed' = [processed EXCEPT ![i] = "False"]
    /\ UNCHANGED <<faults, stream, upload, signalled, expired, lookup, suffix, freq, faq, sheet, sink, cache, poll, ack, driver, records, idx, writes, notifs, audit, store, upstream, bucket_name,
                   now, batch_item_failures, response, deleted, running, cpc>>

\* process_export_request, lines 47-54: the builder returned nothing.
export_failed(i) ==
    /\ driver = "lambda"
    /\ job[i].pc = "built" /\ job[i].export_file = None
    /\ update_audit_log_status(i, "FAILED", NoTime, None, None)
    /\ SetJob(i, [job[i] EXCEPT !.pc = "returned"])
    /\ processed' = [processed EXCEPT ![i] = "False"]
    /\ UNCHANGED <<stream, upload, signalled, expired, lookup, suffix, freq, faq, sheet, sink, cache, poll, ack, driver, records, idx, notifs, store, upstream, bucket_name, now,
                   batch_item_failures, response, deleted, running, cpc>>

\* process_export_request, lines 56-70: pick the sink of the mode and deliver.
deliver(i) ==
    /\ driver = "lambda"
    /\ job[i].pc = "built" /\ job[i].export_file /= None
    /\ records[i].mode \in ExportMode
    /\ LET r == deliver_export(records[i].mode, job[i].handle) IN
       \E published \in Outcomes :
         /\ Fault(published)
         /\ send_firebase_notification(i, r.notify_url, r.notify_status)
         /\ SetJob(i, publish_at_user(
                         [job[i] EXCEPT !.pc = "delivered",
                            !.delivery_result = [success |-> r.success, s3_bucket |-> r.s3_bucket,
                                                 download_url |-> r.download_url]],
                         published))
    /\ UNCHANGED <<stream, upload, signalled, expired, lookup, suffix, freq, faq, sheet, sink, cache, poll, ack, driver, records, idx, writes, audit, store, upstream, bucket_name, now,
                   processed, batch_item_failures, response, deleted, running, cpc>>

\* The router failing the job when its SUCCESS write did not reach the row.
mark_success_or_fail(i) ==
    /\ driver = "lambda"
    /\ job[i].pc = "delivered" /\ job[i].delivery_result.success
    /\ update_audit_log_status(i, "SUCCESS", now - job[i].start_time,
                               job[i].delivery_result.s3_bucket,
                               job[i].delivery_result.download_url)
    /\ IF faults' = faults /\ records[i].mode = "download"
         THEN /\ SetJob(i, [job[i] EXCEPT !.pc = "notify_success"])
              /\ UNCHANGED processed
         ELSE /\ SetJob(i, [job[i] EXCEPT !.pc = "returned"])
              /\ processed' = [processed EXCEPT ![i] = IF faults' = faults THEN "True"
                                                       ELSE "False"]
    /\ UNCHANGED <<stream, upload, signalled, expired, lookup, suffix, freq, faq, sheet, sink, cache, poll, ack, driver, records, idx, notifs, store, upstream, bucket_name, now,
                   batch_item_failures, response, deleted, running, cpc>>

\* process_export_request, lines 71-83: the SUCCESS write.
mark_success(i) ==
    /\ driver = "lambda"
    /\ job[i].pc = "delivered" /\ job[i].delivery_result.success
    /\ update_audit_log_status(i, "SUCCESS", now - job[i].start_time,
                               job[i].delivery_result.s3_bucket,
                               job[i].delivery_result.download_url)
    /\ IF records[i].mode = "download"
         THEN /\ SetJob(i, [job[i] EXCEPT !.pc = "notify_success"])
              /\ UNCHANGED processed
         ELSE /\ SetJob(i, [job[i] EXCEPT !.pc = "returned"])
              /\ processed' = [processed EXCEPT ![i] = "True"]
    /\ UNCHANGED <<stream, upload, signalled, expired, lookup, suffix, freq, faq, sheet, sink, cache, poll, ack, driver, records, idx, notifs, store, upstream, bucket_name, now,
                   batch_item_failures, response, deleted, running, cpc>>

\* The notification of a download job with a notifier that raises: the
\* failure reaches the except clause of the router, which writes FAILED and
\* returns False.
notify_success_unswallowed(i) ==
    /\ driver = "lambda"
    /\ job[i].pc = "notify_success"
    /\ send_firebase_notification(i, job[i].delivery_result.download_url, "SUCCESS")
    /\ \E published \in Outcomes :
         /\ Fault(published)
         /\ SetJob(i, publish_at_user([job[i] EXCEPT !.pc = "returned"], published))
         /\ IF published
              THEN /\ processed' = [processed EXCEPT ![i] = "True"]
                   /\ UNCHANGED <<writes, audit>>
              ELSE /\ processed' = [processed EXCEPT ![i] = "False"]
                   /\ writes' = [writes EXCEPT ![i] =
                                   Append(@, AuditWrite("FAILED", NoTime, None, None))]
                   /\ audit' = update_status(audit, "FAILED", NoTime, None, None, TRUE)
    /\ UNCHANGED <<stream, upload, signalled, expired, lookup, suffix, freq, faq, sheet, sink, cache, poll, ack, driver, records, idx, store, upstream, bucket_name, now,
                   batch_item_failures, response, deleted, running, cpc>>

\* process_export_request, lines 84-92: the notification of a download job.
notify_success(i) ==
    /\ driver = "lambda"
    /\ job[i].pc = "notify_success"
    /\ send_firebase_notification(i, job[i].delivery_result.download_url, "SUCCESS")
    /\ \E published \in Outcomes :
         /\ Fault(published)
         /\ SetJob(i, publish_at_user([job[i] EXCEPT !.pc = "returned"], published))
    /\ processed' = [processed EXCEPT ![i] = "True"]
    /\ UNCHANGED <<stream, upload, signalled, expired, lookup, suffix, freq, faq, sheet, sink, cache, poll, ack, driver, records, idx, writes, audit, store, upstream, bucket_name, now,
                   batch_item_failures, response, deleted, running, cpc>>

\* process_export_request, lines 93-98: the sink reported failure.
mark_failed(i) ==
    /\ driver = "lambda"
    /\ job[i].pc = "delivered" /\ ~job[i].delivery_result.success
    /\ update_audit_log_status(i, "FAILED", NoTime, None, None)
    /\ SetJob(i, [job[i] EXCEPT !.pc = "notify_failed"])
    /\ UNCHANGED <<stream, upload, signalled, expired, lookup, suffix, freq, faq, sheet, sink, cache, poll, ack, driver, records, idx, notifs, store, upstream, bucket_name, now, processed,
                   batch_item_failures, response, deleted, running, cpc>>

\* process_export_request, lines 99-101: the failure notification.
notify_failed(i) ==
    /\ driver = "lambda"
    /\ job[i].pc = "notify_failed"
    /\ send_firebase_notification(i, "", "FAILED")
    /\ \E published \in Outcomes :
         /\ Fault(published)
         /\ SetJob(i, publish_at_user([job[i] EXCEPT !.pc = "returned"], published))
    /\ processed' = [processed EXCEPT ![i] = "False"]
    /\ UNCHANGED <<stream, upload, signalled, expired, lookup, suffix, freq, faq, sheet, sink, cache, poll, ack, driver, records, idx, writes, audit, store, upstream, bucket_name, now,
                   batch_item_failures, response, deleted, running, cpc>>

\* The batch loop listing every record, whatever its processing returned.
handle_records_all_listed(i) ==
    /\ driver = "lambda"
    /\ idx = i
    /\ job[i].pc = "returned"
    /\ batch_item_failures' = Append(batch_item_failures, [itemIdentifier |-> i])
    /\ idx' = i + 1
    /\ SetJob(i, [IdleJob EXCEPT !.pc = "done"])
    /\ UNCHANGED <<faults, stream, upload, signalled, expired, lookup, suffix, freq, faq, sheet, sink, cache, poll, ack, driver, records, writes, notifs, audit, store, upstream, bucket_name, now,
                   processed, response, deleted, running, cpc>>

\* handle_records, lines 20-27; the locals of the call that returned are gone.
\* A record whose processing gave False is added
\* to the failure list, and the loop goes on with the next record.
handle_records(i) ==
    /\ driver = "lambda"
    /\ idx = i
    /\ job[i].pc = "returned"
    /\ batch_item_failures' =
          IF processed[i] = "False"
            THEN Append(batch_item_failures, [itemIdentifier |-> i])
            ELSE batch_item_failures
    /\ idx' = i + 1
    /\ SetJob(i, [IdleJob EXCEPT !.pc = "done"])
    /\ UNCHANGED <<faults, stream, upload, signalled, expired, lookup, suffix, freq, faq, sheet, sink, cache, poll, ack, driver, records, writes, notifs, audit, store, upstream, bucket_name, now,
                   processed, response, deleted, running, cpc>>

\* handle_records, lines 28-30: the batch response.
handle_records_return ==
    /\ driver = "lambda"
    /\ idx = Len(records) + 1
    /\ response = None
    /\ response' = "returned"
    /\ UNCHANGED <<faults, stream, upload, signalled, expired, lookup, suffix, freq, faq, sheet, sink, cache, poll, ack, driver, records, idx, job, writes, notifs, audit, store, upstream,
                   bucket_name, now, processed, batch_item_failures, deleted, running, cpc>>

\* ------------------------------------------- long-polling consumer path

\* SQSExportMessage.from_dict: the message built from a parsed body; a field
\* the body lacks is None on the message.
from_dict(body) == [eventId |-> body.eventId, mode |-> body.mode, report |-> body.report]

\* SQSConsumer._validate_message: every required field is present and not
\* None.
validate_message(message) == message.eventId /= None /\ message.mode /= None

\* ExportProcessorFactory.create_processor of services/export_factory.py.
export_factory_create_processor(report) ==
    IF report.module = "insights"
      THEN IF report.type = "responseGeneration"
             THEN IF report.subType = "frequentAskedQuestions"
                    THEN "InsightsFrequentAskedQuestionsProcessor" ELSE None
             ELSE IF report.type = "projectCollaboration" THEN "ProjectCollaborationProcessor"
             ELSE IF report.type = "AITeammate" THEN "AITeammateProcessor"
             ELSE None
      ELSE IF report.module = "usageLogs"
             THEN IF report.type \in {"answer", "autofill", "AITeammate"}
                    THEN "UsageLogsProcessor" ELSE None
             ELSE None

\* s3_client.py defines the class S3Client and no module-level instance
\* s3_client, so the import in the download sink raises.
HasS3ClientInstance == FALSE

\* SQSExportMessage has no field recipientEmail, so the getattr of the email
\* sink gives None.
HasRecipientEmail == FALSE

FailedDelivery == [success |-> FALSE, s3_bucket |-> None, download_url |-> None]

\* DownloadDeliveryProcessor.deliver_export(file_stream, message, filename) of
\* services/export_factory.py: reads message.eventId, uploads, presigns;
\* every exception ends in success False.
service_download_deliver_export(file_stream, message, filename) ==
    IF HasS3ClientInstance /\ message = "message" /\ file_stream = "stream"
      THEN [success |-> TRUE, s3_bucket |-> "region", download_url |-> UrlNames[1]]
      ELSE FailedDelivery

\* EmailDeliveryProcessor.deliver_export(file_stream, message, filename) of
\* services/export_factory.py.
service_email_deliver_export(file_stream, message, filename) ==
    IF message = "message" /\ HasRecipientEmail /\ file_stream = "stream"
      THEN [success |-> TRUE, s3_bucket |-> None, download_url |-> None]
      ELSE FailedDelivery

\* SQSConsumer.start_consuming, lines 52-56: the loop starts.
start_consuming ==
    /\ driver = "consumer"
    /\ cpc = "init"
    /\ running' = TRUE
    /\ cpc' = "receive"
    /\ UNCHANGED <<faults, stream, upload, signalled, expired, lookup, suffix, freq, faq, sheet, sink, cache, poll, ack, driver, records, idx, job, writes, notifs, audit, store, upstream,
                   bucket_name, now, processed, batch_item_failures, response, deleted>>

\* start_consuming, lines 60-86: one receive hands every message of the batch
\* to a task of its own.
receive_message ==
    /\ driver = "consumer"
    /\ cpc = "receive" /\ running
    /\ \A i \in 1..Len(records) : job[i].pc = "idle"
    /\ job' = [i \in Att |-> IF i <= Len(records) THEN [job[i] EXCEPT !.pc = "task"] ELSE job[i]]
    /\ cpc' = "gather"
    /\ UNCHANGED <<faults, stream, upload, signalled, expired, lookup, suffix, freq, faq, sheet, sink, cache, poll, ack, driver, records, idx, writes, notifs, audit, store, upstream, bucket_name,
                   now, processed, batch_item_failures, response, deleted, running>>

\* start_consuming, line 86: asyncio.gather returns when every task ended.
gather ==
    /\ driver = "consumer"
    /\ cpc = "gather"
    /\ \A i \in 1..Len(records) : job[i].pc = "done"
    /\ cpc' = "receive"
    /\ UNCHANGED <<faults, stream, upload, signalled, expired, lookup, suffix, freq, faq, sheet, sink, cache, poll, ack, driver, records, idx, job, writes, notifs, audit, store, upstream,
                   bucket_name, now, processed, batch_item_failures, response, deleted, running>>

\* main, lines 188-193, and SQSConsumer.stop_consuming: the handler of SIGINT
\* and SIGTERM is installed before initialize() is awaited and clears the
\* polling flag.  A signal can arrive before start_consuming has run, and
\* again while the loop polls.
stop_consuming ==
    /\ driver = "consumer"
    /\ (cpc = "init" /\ ~signalled) \/ running
    /\ running' = FALSE
    /\ signalled' = TRUE
    /\ UNCHANGED <<faults, stream, upload, expired, lookup, suffix, freq, faq, sheet, sink, cache, poll, ack, driver, records, idx, job, writes, notifs, audit, store,
                   upstream, bucket_name, now, processed, batch_item_failures, response, deleted, cpc>>

\* start_consuming, line 58: the loop condition fails and the loop is left.
consumer_stopped ==
    /\ driver = "consumer"
    /\ cpc = "receive" /\ ~running
    /\ cpc' = "stopped"
    /\ UNCHANGED <<faults, stream, upload, signalled, expired, lookup, suffix, freq, faq, sheet, sink, cache, poll, ack, driver, records, idx, job, writes, notifs, audit, store, upstream,
                   bucket_name, now, processed, batch_item_failures, response, deleted, running>>

\* SQSConsumer._delete_message swallows a failed delete.
delete_message(i, acked) ==
    /\ deleted' = IF acked THEN deleted \cup {i} ELSE deleted
    /\ Fault(acked)

\* SQSConsumer._process_message, lines 102-120 and 131-133: a body that is not
\* JSON and a message that fails validation are deleted; any other message
\* goes to the export service.
consumer_process_message(i) ==
    /\ driver = "consumer"
    /\ job[i].pc = "task"
    /\ IF ~records[i].json \/ ~validate_message(from_dict(records[i]))
         THEN /\ \E acked \in Outcomes : delete_message(i, acked)
              /\ SetJob(i, [job[i] EXCEPT !.pc = "done"])
         ELSE /\ SetJob(i, [job[i] EXCEPT !.pc = "service_start", !.start_time = now])
              /\ UNCHANGED <<deleted, faults>>
    /\ UNCHANGED <<stream, upload, signalled, expired, lookup, suffix, freq, faq, sheet, sink, cache, poll, ack, driver, records, idx, writes, notifs, audit, store, upstream, bucket_name,
                   now, processed, batch_item_failures, response, running, cpc>>

\* ExportService.process_export_request, lines 36-48: the PROCESSING write.
service_mark_processing(i) ==
    /\ driver = "consumer"
    /\ job[i].pc = "service_start"
    /\ update_audit_log_status(i, "PROCESSING", NoTime, None, None)
    /\ SetJob(i, [job[i] EXCEPT !.pc = "service_dispatch"])
    /\ UNCHANGED <<stream, upload, signalled, expired, lookup, suffix, freq, faq, sheet, sink, cache, poll, ack, driver, records, idx, notifs, store, upstream, bucket_name, now, processed,
                   batch_item_failures, response, deleted, running, cpc>>

\* ExportService.process_export_request, lines 50-62: no processor for the
\* message ends the job FAILED; otherwise the processor builds the workbook in
\* memory and gives a stream, or None when fetching or building failed.
service_process_export(i) ==
    /\ driver = "consumer"
    /\ job[i].pc = "service_dispatch"
    /\ IF export_factory_create_processor(records[i].report) = None
         THEN /\ update_audit_log_status(i, "FAILED", NoTime, None, None)
              /\ SetJob(i, [job[i] EXCEPT !.pc = "service_returned"])
              /\ processed' = [processed EXCEPT ![i] = "False"]
         ELSE /\ \E built \in Outcomes :
                    /\ Fault(built)
                    /\ SetJob(i, [job[i] EXCEPT !.pc = "service_built",
                                    !.export_file = IF built THEN "stream" ELSE None])
              /\ UNCHANGED <<writes, audit, processed>>
    /\ UNCHANGED <<stream, upload, signalled, expired, lookup, suffix, freq, faq, sheet, sink, cache, poll, ack, driver, records, idx, notifs, store, upstream, bucket_name, now,
                   batch_item_failures, response, deleted, running, cpc>>

\* ExportService.process_export_request, lines 63-70: the builder gave None.
service_export_failed(i) ==
    /\ driver = "consumer"
    /\ job[i].pc = "service_built" /\ job[i].export_file = None
    /\ update_audit_log_status(i, "FAILED", NoTime, None, None)
    /\ SetJob(i, [job[i] EXCEPT !.pc = "service_returned"])
    /\ processed' = [processed EXCEPT ![i] = "False"]
    /\ UNCHANGED <<stream, upload, signalled, expired, lookup, suffix, freq, faq, sheet, sink, cache, poll, ack, driver, records, idx, notifs, store, upstream, bucket_name, now,
                   batch_item_failures, response, deleted, running, cpc>>

\* ExportService.process_export_request, lines 72-90: the sink of the mode is
\* called as deliver_export(export_file, filename, message), the last two
\* arguments in the other order than the sink declares them.
service_deliver(i) ==
    /\ driver = "consumer"
    /\ job[i].pc = "service_built" /\ job[i].export_file /= None
    /\ SetJob(i, [job[i] EXCEPT !.pc = "service_delivered",
                    !.delivery_result =
                       IF records[i].mode = "download"
                         THEN service_download_deliver_export(job[i].export_file, "filename", "message")
                         ELSE service_email_deliver_export(job[i].export_file, "filename", "message")])
    /\ UNCHANGED <<faults, stream, upload, signalled, expired, lookup, suffix, freq, faq, sheet, sink, cache, poll, ack, driver, records, idx, writes, notifs, audit, store, upstream, bucket_name,
                   now, processed, batch_item_failures, response, deleted, running, cpc>>

\* ExportService.process_export_request, lines 92-129: on success the status
\* ExportStatus.COMPLETED is looked up; ExportStatus has no such member, the
\* AttributeError reaches the except clause, which writes FAILED.
service_finish(i) ==
    /\ driver = "consumer"
    /\ job[i].pc = "service_delivered"
    /\ IF job[i].delivery_result.success /\ "COMPLETED" \in ExportStatus
         THEN /\ update_audit_log_status(i, "COMPLETED", (now - job[i].start_time) * 1000,
                                         job[i].delivery_result.s3_bucket,
                                         job[i].delivery_result.download_url)
              /\ send_firebase_notification(i, job[i].delivery_result.download_url, "SUCCESS")
              /\ processed' = [processed EXCEPT ![i] = "True"]
         ELSE /\ update_audit_log_status(i, "FAILED", NoTime, None, None)
              /\ processed' = [processed EXCEPT ![i] = "False"]
              /\ UNCHANGED notifs
    /\ SetJob(i, [job[i] EXCEPT !.pc = "service_returned"])
    /\ UNCHANGED <<stream, upload, signalled, expired, lookup, suffix, freq, faq, sheet, sink, cache, poll, ack, driver, records, idx, store, upstream, bucket_name, now,
                   batch_item_failures, response, deleted, running, cpc>>

\* SQSConsumer._process_message, lines 121-129: the message is deleted when
\* the export service returned True and left in the queue otherwise.
consumer_process_message_end(i) ==
    /\ driver = "consumer"
    /\ job[i].pc = "service_returned"
    /\ IF processed[i] = "True"
         THEN \E acked \in Outcomes : delete_message(i, acked)
         ELSE UNCHANGED <<deleted, faults>>
    /\ SetJob(i, [job[i] EXCEPT !.pc = "done", !.start_time = 0])
    /\ UNCHANGED <<stream, upload, signalled, expired, lookup, suffix, freq, faq, sheet, sink, cache, poll, ack, driver, records, idx, writes, notifs, audit, store, upstream, bucket_name,
                   now, processed, batch_item_failures, response, running, cpc>>

\* ------------------------------------------------------ paginated readers

\* The paginated readers: the generators get_*_batches of the two analytics
\* clients, which all run the loop of get_answer_logs_batches, and
\* InsightsAPIClient.get_all_top_questions, which collects every page.
Readers == {"get_answer_logs_batches", "get_all_top_questions"}

\* The numbers of items a list endpoint holds when a reader is followed alone:
\* a few, and as many as fill MAX_PAGES pages, one less and one more.
StreamSizes ==
    (0..MaxItems) \cup
    {MAX_PAGES * PageSize - 1, MAX_PAGES * PageSize, MAX_PAGES * PageSize + 1}

BatchVars == <<signalled, expired, suffix, freq, faq, sheet, sink, cache, poll, ack, driver, records, idx, job, writes, notifs, audit, store, upstream, bucket_name,
               now, processed, batch_item_failures, response, deleted, running, cpc>>

\* The worker before it is handed a batch.
QuietBatch ==
    /\ driver = "lambda"
    /\ records = <<Poison>>
    /\ idx = 1
    /\ job = [i \in Att |-> IdleJob]
    /\ writes = [i \in Att |-> <<>>]
    /\ notifs = [i \in Att |-> <<>>]
    /\ audit = AuditRow0
    /\ store = [k \in Keys |-> NoObject]
    /\ bucket_name = "sh-reporting-dev"
    /\ now = 0
    /\ processed = [i \in Att |-> None]
    /\ batch_item_failures = <<>>
    /\ response = None
    /\ deleted = {}
    /\ running = FALSE
    /\ cpc = "init"
    /\ faults = 0
    /\ signalled = FALSE
    /\ expired = FALSE

\* A reader is called on an endpoint holding `upstream` items.
PageInit ==
    /\ QuietBatch
    /\ upstream \in StreamSizes
    /\ stream \in {[NoStream EXCEPT !.reader = r, !.pc = "request"] : r \in Readers}
    /\ upload = NoUpload
    /\ lookup = NoLookup
    /\ suffix = NoSuffix
    /\ freq = NoFreq
    /\ faq = NoFaq
    /\ sheet = NoSheet
    /\ sink = NoSink
    /\ cache = NoCache
    /\ poll = NoPoll
    /\ ack = NoAck

\* get_*_batches up to the yield: request page `page`; no response or no data
\* ends the stream, otherwise the page is yielded.
get_batches_request ==
    /\ stream.reader = "get_answer_logs_batches"
    /\ stream.pc = "request"
    /\ \E ok \in Outcomes :
         LET n == get_page(upstream, stream.page, PageSize, ok) IN
         /\ Fault(ok)
         /\ stream' = IF n = 0
                        THEN [stream EXCEPT !.pc = "done", !.requested = stream.page,
                                            !.requests = @ + 1, !.got = 0]
                        ELSE [stream EXCEPT !.pc = "yielded", !.requested = stream.page,
                                            !.requests = @ + 1, !.got = n, !.yielded = @ + 1]
    /\ UNCHANGED <<BatchVars, upload, lookup>>

\* get_*_batches after the yield: stop on a short page, else go to the next
\* page unless it lies beyond MAX_PAGES.
get_batches_resume ==
    /\ stream.reader = "get_answer_logs_batches"
    /\ stream.pc = "yielded"
    /\ stream' = [stream EXCEPT
                    !.pc = IF next_page_pc(stream.got, stream.page, PageSize) = "fetch"
                             THEN "request" ELSE "done",
                    !.page = IF stream.got < PageSize THEN @ ELSE @ + 1]
    /\ UNCHANGED <<BatchVars, faults, upload, lookup>>

\* One turn of the loop of InsightsAPIClient.get_all_top_questions: request a
\* page, stop on no response, no data or a short page, else go on.
get_all_top_questions ==
    /\ stream.reader = "get_all_top_questions"
    /\ stream.pc = "request"
    /\ \E ok \in Outcomes :
         LET n == get_page(upstream, stream.page, PageSize, ok) IN
         /\ Fault(ok)
         /\ stream' = IF n = 0
                        THEN [stream EXCEPT !.pc = "done", !.requested = stream.page,
                                            !.requests = @ + 1, !.got = 0]
                        ELSE [stream EXCEPT !.pc = IF n < PageSize THEN "done" ELSE "request",
                                            !.requested = stream.page,
                                            !.requests = @ + 1, !.got = n, !.yielded = @ + 1,
                                            !.page = IF n < PageSize THEN @ ELSE @ + 1]
    /\ UNCHANGED <<BatchVars, upload, lookup>>

PageNext ==
    \/ get_batches_request
    \/ get_batches_resume
    \/ get_all_top_questions

PageSpec == PageInit /\ [][PageNext]_vars

\* ------------------------------------------------- S3Client.upload_file_stream

\* A file of file_size MiB is put under a key.
UploadInit ==
    /\ QuietBatch
    /\ upstream = 0
    /\ stream = NoStream
    /\ upload \in {[NoUpload EXCEPT !.pc = "start", !.key = k, !.file_size = sz] :
                      k \in Keys, sz \in 0..MaxSize}
    /\ lookup = NoLookup
    /\ suffix = NoSuffix
    /\ freq = NoFreq
    /\ faq = NoFaq
    /\ sheet = NoSheet
    /\ sink = NoSink
    /\ cache = NoCache
    /\ poll = NoPoll
    /\ ack = NoAck

SetUpload(u) ==
    /\ upload' = u
    /\ UNCHANGED <<BatchVars, faults, stream, lookup>>

\* The put taking the multipart way from the threshold on.
upload_file_stream_from_threshold ==
    /\ upload.pc = "start"
    /\ SetUpload([upload EXCEPT !.pc = IF upload.file_size >= MULTIPART_THRESHOLD
                                         THEN "create" ELSE "put_object"])

\* upload_file_stream, lines 31-37: a file above the threshold goes the
\* multipart way.
upload_file_stream ==
    /\ upload.pc = "start"
    /\ SetUpload([upload EXCEPT !.pc = IF upload.file_size > MULTIPART_THRESHOLD
                                         THEN "create" ELSE "put_object"])

\* upload_file_stream, lines 38-50: the simple put; an exception gives False.
put_object ==
    /\ upload.pc = "put_object"
    /\ \E ok \in BOOLEAN :
         SetUpload([upload EXCEPT !.pc = "done", !.put_calls = @ + 1,
                                  !.result = IF ok THEN "True" ELSE "False"])

\* _multipart_upload, lines 75-86: when the create call fails there is no
\* upload id, the exception is raised again and the put gives False.
create_multipart_upload ==
    /\ upload.pc = "create"
    /\ \E ok \in BOOLEAN :
         SetUpload(IF ok
                     THEN [upload EXCEPT !.pc = "part", !.upload_id = "upload-1",
                                         !.multipart = "open", !.offset = 0, !.part_number = 1]
                     ELSE [upload EXCEPT !.pc = "done", !.result = "False"])

\* file_stream.read(part_size), line 88: the size of the chunk read at
\* `offset` of a stream of file_size MiB.
read(file_size, offset, part_size) == Max(0, Min(part_size, file_size - offset))

\* _multipart_upload, lines 87-103: read the next chunk; an empty chunk ends
\* the loop, a failed part upload goes to the except clause.  An uploaded
\* part is noted in `parts` with its number and, for its ETag, the size of
\* its body.
upload_part ==
    /\ upload.pc = "part"
    /\ LET chunk == read(upload.file_size, upload.offset, PART_SIZE) IN
       IF chunk = 0
         THEN SetUpload([upload EXCEPT !.pc = "complete"])
         ELSE \E ok \in BOOLEAN :
                SetUpload(IF ok
                            THEN [upload EXCEPT
                                    !.offset = @ + chunk,
                                    !.parts = Append(@, [PartNumber |-> upload.part_number,
                                                         size |-> chunk]),
                                    !.part_number = @ + 1]
                            ELSE [upload EXCEPT !.offset = @ + chunk, !.pc = "abort"])

\* _multipart_upload, lines 104-111: the completion call, with the list of
\* parts.
complete_multipart_upload ==
    /\ upload.pc = "complete"
    /\ \E ok \in BOOLEAN :
         LET called == [upload EXCEPT
                          !.complete_calls = @ + 1,
                          !.completed_with = [k \in DOMAIN upload.parts |->
                                                upload.parts[k].PartNumber]]
         IN
         SetUpload(IF ok
                     THEN [called EXCEPT !.pc = "done", !.multipart = "completed",
                                         !.result = "True"]
                     ELSE [called EXCEPT !.pc = "abort"])

\* _multipart_upload, lines 112-123: the abort call is issued; when it fails
\* the failure is dropped.  The first exception is raised again and the put
\* gives False.
abort_multipart_upload ==
    /\ upload.pc = "abort"
    /\ \E ok \in BOOLEAN :
         SetUpload([upload EXCEPT !.pc = "done", !.abort_issued = TRUE,
                                  !.multipart = IF ok THEN "aborted" ELSE @,
                                  !.result = "False"])

UploadNext ==
    \/ upload_file_stream
    \/ put_object
    \/ create_multipart_upload
    \/ upload_part
    \/ complete_multipart_upload
    \/ abort_multipart_upload

UploadSpec == UploadInit /\ [][UploadNext]_vars

\* -------------------------------------------------------------- registries

\* The values a message can carry in module, type and subType: those of the
\* enumerations of export_models.py and one more.
LookupModules == {"insights", "usageLogs", "other"}
LookupTypes == {"responseGeneration", "projectCollaboration", "AITeammate", "answer", "autofill",
                "other"}
LookupSubTypes == {"frequentAskedQuestions", "logs", "other"}

\* The registries of the source tree: ExportProcessorFactory of
\* services/export_factory.py, and ModuleProcessorFactory with the type
\* factories of factories/.
Factories == {"ExportProcessorFactory", "ModuleProcessorFactory"}

\* ModuleProcessorFactory.create_processor(module).process_export: the module
\* processor asks InsightsTypeFactory or UsageLogsTypeFactory for the
\* processor of the type; the subType is not looked at.
module_factory_create_processor(report) ==
    IF report.module = "insights"
      THEN IF report.type = "responseGeneration" THEN "ResponseGenerationProcessor"
           ELSE IF report.type = "projectCollaboration" THEN "ProjectCollaborationProcessor"
           ELSE IF report.type = "AITeammate" THEN "AITeammateProcessor"
           ELSE None
    ELSE IF report.module = "usageLogs"
      THEN IF report.type = "answer" THEN "AnswerProcessor"
           ELSE IF report.type = "autofill" THEN "AutofillProcessor"
           ELSE IF report.type = "AITeammate" THEN "AITeammateUsageProcessor"
           ELSE None
    ELSE None

\* process_export of the processors of services/export_factory.py: each
\* one runs generate_excel of its generator.
export_factory_process_export(processor) ==
    IF processor = "InsightsFrequentAskedQuestionsProcessor" THEN "InsightsFAQExcelGenerator"
    ELSE IF processor = "ProjectCollaborationProcessor" THEN "ProjectCollaborationExcelGenerator"
    ELSE IF processor = "AITeammateProcessor" THEN "AITeammateExcelGenerator"
    ELSE IF processor = "UsageLogsProcessor" THEN "UsageLogsExcelGenerator"
    ELSE None

\* process_export of the type processors of factories/: the one of
\* responseGeneration runs the FAQ generator for subType
\* frequentAskedQuestions; the others log and return None.
type_factory_process_export(processor, report) ==
    IF processor = "ResponseGenerationProcessor" /\ report.subType = "frequentAskedQuestions"
      THEN "InsightsFAQExcelGenerator"
    ELSE None

\* A registry is asked for one (module, type, subType).
RegistryInit ==
    /\ QuietBatch
    /\ upstream = 0
    /\ stream = NoStream
    /\ upload = NoUpload
    /\ suffix = NoSuffix
    /\ freq = NoFreq
    /\ faq = NoFaq
    /\ sheet = NoSheet
    /\ lookup \in {[NoLookup EXCEPT !.pc = "create", !.factory = f, !.report = r] :
                      f \in Factories,
                      r \in [module : LookupModules, type : LookupTypes,
                             subType : LookupSubTypes]}
    /\ sink = NoSink
    /\ cache = NoCache
    /\ poll = NoPoll
    /\ ack = NoAck

\* create_processor of the registry asked.
create_processor ==
    /\ lookup.pc = "create"
    /\ lookup' = [lookup EXCEPT
                    !.pc = "created",
                    !.processor = IF lookup.factory = "ExportProcessorFactory"
                                    THEN export_factory_create_processor(lookup.report)
                                    ELSE module_factory_create_processor(lookup.report)]
    /\ UNCHANGED <<BatchVars, faults, stream, upload>>

\* The caller of the registry: without a processor the job is rejected,
\* otherwise process_export of the processor is awaited.
registry_process_export ==
    /\ lookup.pc = "created"
    /\ lookup' = [lookup EXCEPT
                    !.pc = "done",
                    !.builder = IF lookup.factory = "ExportProcessorFactory"
                                  THEN export_factory_process_export(lookup.processor)
                                  ELSE type_factory_process_export(lookup.processor,
                                                                   lookup.report)]
    /\ UNCHANGED <<BatchVars, faults, stream, upload>>

RegistryNext ==
    \/ create_processor
    \/ registry_process_export

RegistrySpec == RegistryInit /\ [][RegistryNext]_vars

\* ------------------------------------------------------------ sheet suffix

\* The data of a status condition is a string of status names joined by
\* "#@#"; it is modelled as the sequence of the names.  None of the names is
\* part of another, so one string contains another exactly when the names of
\* the second are a run of the names of the first.
StatusNames == {"ANSWERED", "NO_INFORMATION", "PARTIAL", "OTHER"}

StatusData == UNION {[1..n -> StatusNames] : n \in 0..MaxTokens}

\* Python's `pattern in data` on two such strings.
Contains(data, pattern) ==
    \E k \in 0..(Len(data) - Len(pattern)) : SubSeq(data, k + 1, k + Len(pattern)) = pattern

ALL_STATUSES == <<"ANSWERED", "NO_INFORMATION", "PARTIAL">>
ANSWERED_STATUSES == <<"ANSWERED", "PARTIAL">>
UNANSWERED_STATUSES == <<"NO_INFORMATION">>

\* message.filter: absent, without a status condition, or with one.
NoFilter == [present |-> FALSE, status |-> FALSE, data |-> <<>>]
Filters ==
    {NoFilter, [present |-> TRUE, status |-> FALSE, data |-> <<>>]}
      \cup {[present |-> TRUE, status |-> TRUE, data |-> d] : d \in StatusData}

\* _get_sheet_suffix of the streaming generator, of InsightsProcessor and of
\* the module factory: containment tests in this order; empty data is falsy.
get_sheet_suffix(filter) ==
    IF filter.present /\ filter.status /\ filter.data /= <<>>
      THEN IF Contains(filter.data, ALL_STATUSES) THEN "All"
           ELSE IF Contains(filter.data, ANSWERED_STATUSES) THEN "Answered"
           ELSE IF Contains(filter.data, UNANSWERED_STATUSES) THEN "Unanswered"
           ELSE "All"
      ELSE "All"

\* _get_sheet_suffix of services/excel_generators/insights_faq_generator.py:
\* the data is compared for equality.
service_get_sheet_suffix(filter) ==
    IF ~filter.present \/ ~filter.status THEN "All"
    ELSE IF filter.data = ALL_STATUSES THEN "All"
    ELSE IF filter.data = ANSWERED_STATUSES THEN "Answered"
    ELSE IF filter.data = UNANSWERED_STATUSES THEN "Unanswered"
    ELSE "All"

\* A message with some filter is about to be exported.
SuffixInit ==
    /\ QuietBatch
    /\ upstream = 0
    /\ stream = NoStream
    /\ upload = NoUpload
    /\ lookup = NoLookup
    /\ suffix \in {[NoSuffix EXCEPT !.pc = "ready", !.filter = f] : f \in Filters}
    /\ freq = NoFreq
    /\ faq = NoFaq
    /\ sheet = NoSheet
    /\ sink = NoSink
    /\ cache = NoCache
    /\ poll = NoPoll
    /\ ack = NoAck

SetSuffix(v) ==
    /\ suffix' = v
    /\ UNCHANGED <<signalled, expired, sink, cache, poll, ack, driver, records, idx, job, writes, notifs, audit, store,
                   upstream, bucket_name, now, processed, batch_item_failures, response,
                   deleted, running, cpc, faults, stream, upload, lookup, freq, faq, sheet>>

\* _create_sheet_headers: the sheets of the skeleton are titled with the
\* suffix.
create_sheet_headers ==
    /\ suffix.pc = "ready" /\ suffix.sheet = None
    /\ SetSuffix([suffix EXCEPT !.sheet = get_sheet_suffix(suffix.filter)])

\* _initialize_excel_structure, line 82: the storage key carries the suffix.
suffix_of_s3_key ==
    /\ suffix.pc = "ready" /\ suffix.key = None
    /\ SetSuffix([suffix EXCEPT !.key = get_sheet_suffix(suffix.filter)])

\* InsightsProcessor.get_export_filename: the file name carries the suffix.
get_export_filename ==
    /\ suffix.pc = "ready" /\ suffix.filename = None
    /\ SetSuffix([suffix EXCEPT !.filename = get_sheet_suffix(suffix.filter)])

\* generate_excel of services/excel_generators/insights_faq_generator.py: the
\* sheets of the workbook built in memory are titled with the suffix.
service_create_sheets ==
    /\ suffix.pc = "ready" /\ suffix.service_sheet = None
    /\ SetSuffix([suffix EXCEPT !.service_sheet = service_get_sheet_suffix(suffix.filter)])

SuffixNext ==
    \/ create_sheet_headers
    \/ suffix_of_s3_key
    \/ get_export_filename
    \/ service_create_sheets

SuffixSpec == SuffixInit /\ [][SuffixNext]_vars

\* -------------------------------------------------------- frequency cells

\* The distribution of a category or sub-category, in per cent.
Distributions == {0, 50, 100}

Suffixes == {"All", "Answered", "Unanswered"}

\* _get_base_count of services/excel_generators/insights_faq_generator.py.
get_base_count(totalQuestions, totalQuestionsAnswered, sheet_suffix) ==
    IF sheet_suffix = "All" THEN totalQuestions
    ELSE IF sheet_suffix = "Answered" THEN totalQuestionsAnswered
    ELSE IF sheet_suffix = "Unanswered" THEN totalQuestions - totalQuestionsAnswered
    ELSE totalQuestions

\* int(total * (distribution / 100)) on a total and a percentage that are
\* not negative.
frequency(total, distribution) == (total * distribution) \div 100

\* The info cards of a job give the two counts; a row with some distribution
\* is about to be written for a job with some suffix.
FrequencyInit ==
    /\ QuietBatch
    /\ upstream = 0
    /\ stream = NoStream
    /\ upload = NoUpload
    /\ lookup = NoLookup
    /\ suffix = NoSuffix
    /\ freq \in {[NoFreq EXCEPT !.pc = "ready", !.totalQuestions = t,
                                !.totalQuestionsAnswered = a, !.sheet_suffix = sfx,
                                !.distribution = d] :
                    t \in 0..MaxCount, a \in 0..MaxCount, sfx \in Suffixes,
                    d \in Distributions}
    /\ faq = NoFaq
    /\ sheet = NoSheet
    /\ freq.totalQuestionsAnswered <= freq.totalQuestions
    /\ sink = NoSink
    /\ cache = NoCache
    /\ poll = NoPoll
    /\ ack = NoAck

SetFreq(v) ==
    /\ freq' = v
    /\ UNCHANGED <<signalled, expired, sink, cache, poll, ack, driver, records, idx, job, writes, notifs, audit, store,
                   upstream, bucket_name, now, processed, batch_item_failures, response,
                   deleted, running, cpc, faults, stream, upload, lookup, suffix, faq, sheet>>

\* _add_category_batch_to_excel, line 223: the frequency of a category row
\* of the streaming generator.
add_category_row ==
    /\ freq.pc = "ready" /\ freq.category = NoObject
    /\ SetFreq([freq EXCEPT !.category = frequency(PLACEHOLDER_TOTAL, freq.distribution)])

\* _add_subcategory_batch_to_excel, line 258: the frequency of a sub-category
\* row of the streaming generator.
add_subcategory_row ==
    /\ freq.pc = "ready" /\ freq.subcategory = NoObject
    /\ SetFreq([freq EXCEPT !.subcategory = frequency(PLACEHOLDER_TOTAL, freq.distribution)])

\* _create_category_sheet of services/excel_generators/insights_faq_generator.py:
\* the frequency of a category row of the generator that builds in memory.
service_create_category_sheet ==
    /\ freq.pc = "ready" /\ freq.service_category = NoObject
    /\ SetFreq([freq EXCEPT !.service_category =
                   frequency(get_base_count(freq.totalQuestions, freq.totalQuestionsAnswered,
                                            freq.sheet_suffix),
                             freq.distribution)])

\* _create_subcategory_sheet of the same generator.
service_create_subcategory_sheet ==
    /\ freq.pc = "ready" /\ freq.service_subcategory = NoObject
    /\ SetFreq([freq EXCEPT !.service_subcategory =
                   frequency(get_base_count(freq.totalQuestions, freq.totalQuestionsAnswered,
                                            freq.sheet_suffix),
                             freq.distribution)])

FrequencyNext ==
    \/ add_category_row
    \/ add_subcategory_row
    \/ service_create_category_sheet
    \/ service_create_subcategory_sheet

FrequencySpec == FrequencyInit /\ [][FrequencyNext]_vars

\* ------------------------------------------------ the streams of a FAQ job

\* The analytics service holds `categories` categories, `subcategories`
\* sub-categories of every category and `questions` top questions.  The
\* skeleton of the workbook is in storage and the storage cycles of the
\* appends succeed.
FaqInit ==
    /\ QuietBatch
    /\ upstream = 0
    /\ stream = NoStream
    /\ upload = NoUpload
    /\ lookup = NoLookup
    /\ suffix = NoSuffix
    /\ freq = NoFreq
    /\ faq \in {[NoFaq EXCEPT !.pc = "info_cards", !.categories = c, !.subcategories = sc,
                              !.questions = q] :
                   c \in 0..MaxItems, sc \in 0..PageSize, q \in 0..PageSize}
    /\ sheet = NoSheet
    /\ sink = NoSink
    /\ cache = NoCache
    /\ poll = NoPoll
    /\ ack = NoAck

SetFaq(v) ==
    /\ faq' = v
    /\ UNCHANGED <<signalled, expired, sink, cache, poll, ack, driver, records, idx, job, writes, notifs, audit, store,
                   upstream, bucket_name, now, processed, batch_item_failures, response,
                   deleted, running, cpc, stream, upload, lookup, suffix, freq, sheet>>

\* The items of page `page` of a list of n items, as their positions.
page_items(n, page, batch_size, ok) ==
    [k \in 1..get_page(n, page, batch_size, ok) |-> (page - 1) * batch_size + k]

\* Where a stream goes after a page of `got` items: to its next page, or to
\* its end.
stream_goes_on(got, page) == got > 0 /\ next_page_pc(got, page, PageSize) = "fetch"

\* _process_info_cards_batches: one call for the info cards; whatever it
\* gives, the builder goes on with the categories.
process_info_cards_batches ==
    /\ faq.pc = "info_cards"
    /\ \E ok \in Outcomes :
         /\ Fault(ok)
         /\ SetFaq([faq EXCEPT !.pc = "categories", !.page = 1,
                               !.calls = Append(@, <<"info_cards", 0, 1>>),
                               !.failed = IF ok THEN @ ELSE @ \cup {<<"info_cards", 0, 1>>}])

\* The category stream aborting the build when a page call fails.
process_category_batches_raising ==
    /\ faq.pc = "categories"
    /\ \E ok \in Outcomes :
         LET items == page_items(faq.categories, faq.page, PageSize, ok)
             call == <<"category", 0, faq.page>>
         IN
         /\ Fault(ok)
         /\ SetFaq([faq EXCEPT
                      !.pc = IF ~ok THEN "done"
                             ELSE IF stream_goes_on(Len(items), faq.page) THEN "categories"
                             ELSE "subcategories",
                      !.page = IF stream_goes_on(Len(items), faq.page) THEN @ + 1 ELSE 1,
                      !.cur = 1,
                      !.sheet1 = @ \o items,
                      !.category_ids = @ \o items,
                      !.calls = Append(@, call),
                      !.failed = IF ok THEN @ ELSE @ \cup {call}])

\* _process_category_batches: one turn of get_category_distribution_batches
\* with the body of the loop.  A page call that fails, or gives no category,
\* ends the stream; a page is appended to the first sheet and its ids are
\* collected.
process_category_batches ==
    /\ faq.pc = "categories"
    /\ \E ok \in Outcomes :
         LET items == page_items(faq.categories, faq.page, PageSize, ok)
             call == <<"category", 0, faq.page>>
         IN
         /\ Fault(ok)
         /\ SetFaq([faq EXCEPT
                      !.pc = IF stream_goes_on(Len(items), faq.page) THEN "categories"
                             ELSE "subcategories",
                      !.page = IF stream_goes_on(Len(items), faq.page) THEN @ + 1 ELSE 1,
                      !.cur = 1,
                      !.sheet1 = @ \o items,
                      !.category_ids = @ \o items,
                      !.calls = Append(@, call),
                      !.failed = IF ok THEN @ ELSE @ \cup {call}])

\* The loop over the collected ids leaving out every second one.
next_category_skipping(cur) == cur + 2

\* _process_subcategory_batches, line 162: the loop goes to the next
\* collected id.
next_category(cur) == cur + 1

\* _process_subcategory_batches: for every collected category id in turn,
\* one turn of get_subcategory_distribution_batches with the body of the
\* loop; after the last id the questions follow.
process_subcategory_batches ==
    /\ faq.pc = "subcategories"
    /\ IF faq.cur > Len(faq.category_ids)
         THEN /\ SetFaq([faq EXCEPT !.pc = "questions", !.page = 1])
              /\ UNCHANGED faults
         ELSE \E ok \in Outcomes :
                LET id == faq.category_ids[faq.cur]
                    items == page_items(faq.subcategories, faq.page, PageSize, ok)
                    call == <<"subcategory", id, faq.page>>
                    more == stream_goes_on(Len(items), faq.page)
                IN
                /\ Fault(ok)
                /\ SetFaq([faq EXCEPT
                             !.page = IF more THEN @ + 1 ELSE 1,
                             !.cur = IF more THEN @ ELSE next_category(@),
                             !.sheet2 = @ \o [k \in DOMAIN items |-> <<id, items[k]>>],
                             !.calls = Append(@, call),
                             !.failed = IF ok THEN @ ELSE @ \cup {call}])

\* _process_questions_batches: one turn of get_top_questions_batches with the
\* body of the loop; after the stream the builder mints the URL and returns
\* the handle.
process_questions_batches ==
    /\ faq.pc = "questions"
    /\ \E ok \in Outcomes :
         LET items == page_items(faq.questions, faq.page, PageSize, ok)
             call == <<"questions", 0, faq.page>>
             more == stream_goes_on(Len(items), faq.page)
         IN
         /\ Fault(ok)
         /\ SetFaq([faq EXCEPT
                      !.pc = IF more THEN "questions" ELSE "done",
                      !.page = IF more THEN @ + 1 ELSE 1,
                      !.sheet3 = @ \o items,
                      !.calls = Append(@, call),
                      !.failed = IF ok THEN @ ELSE @ \cup {call},
                      !.result = IF more THEN @ ELSE "handle"])

FaqNext ==
    \/ process_info_cards_batches
    \/ process_category_batches
    \/ process_subcategory_batches
    \/ process_questions_batches

FaqSpec == FaqInit /\ [][FaqNext]_vars

\* ------------------------------------------------ the rows of a logs sheet

\* The values the first column of a log can carry: AnswerLogData.question is
\* a required string, which the empty string is.
Questions == {"question", ""}

\* _add_answer_logs_batch_to_excel, line 150: the first data row of the logs
\* sheet, below the column headers of row 8.  The sheet is noted as the
\* function from its data rows to what they hold.
START_ROW == 9

\* wb.save and load_workbook: the writer leaves out the value of a cell that
\* holds None or the empty string, and the reader gives None for a cell
\* without a value.
save_load(ws) ==
    [r \in DOMAIN ws |-> [ws[r] EXCEPT !.value = IF @ = "" THEN None ELSE @]]

\* _find_next_available_row: the first row from start_row on whose first
\* column holds None.
RECURSIVE find_next_available_row(_, _)
find_next_available_row(ws, row) ==
    IF row \in DOMAIN ws /\ ws[row].value /= None
      THEN find_next_available_row(ws, row + 1)
      ELSE row

\* The loop of _add_answer_logs_batch_to_excel, lines 153-172: the logs of
\* the batch are written to the rows next_row, next_row + 1, ...; a row is
\* noted with the value of its first column and the position of its log in
\* the stream.
write_rows(ws, next_row, batch) ==
    [r \in DOMAIN ws \cup next_row..(next_row + Len(batch) - 1) |->
       IF r >= next_row /\ r < next_row + Len(batch) THEN batch[r - next_row + 1] ELSE ws[r]]

\* The analytics service holds the logs `data`; the sheet has its headers
\* and no data row.
SheetInit ==
    /\ QuietBatch
    /\ upstream = 0
    /\ stream = NoStream
    /\ upload = NoUpload
    /\ lookup = NoLookup
    /\ suffix = NoSuffix
    /\ freq = NoFreq
    /\ faq = NoFaq
    /\ sheet \in {[NoSheet EXCEPT !.pc = "fetch", !.data = d] :
                     d \in UNION {[1..n -> Questions] : n \in 0..MaxItems}}
    /\ sink = NoSink
    /\ cache = NoCache
    /\ poll = NoPoll
    /\ ack = NoAck

SetSheet(v) ==
    /\ sheet' = v
    /\ UNCHANGED <<signalled, expired, sink, cache, poll, ack, driver, records, idx, job, writes, notifs, audit, store,
                   upstream, bucket_name, now, processed, batch_item_failures, response,
                   deleted, running, cpc, stream, upload, lookup, suffix, freq, faq>>

\* get_answer_logs_batches: one turn of the page loop up to its yield; a
\* failed call or an empty page ends the stream.
get_answer_logs_batches ==
    /\ sheet.pc = "fetch"
    /\ \E ok \in Outcomes :
         LET positions == page_items(Len(sheet.data), sheet.page, PageSize, ok)
             batch == [k \in DOMAIN positions |->
                         [value |-> sheet.data[positions[k]], log |-> positions[k]]]
         IN
         /\ Fault(ok)
         /\ SetSheet([sheet EXCEPT !.pc = IF Len(batch) = 0 THEN "done" ELSE "append",
                                   !.batch = batch])

\* _add_answer_logs_batch_to_excel: the download-modify-upload cycle of one
\* page; when the download or the upload fails the sheet in storage stays as
\* it was.  Then the page loop goes on after its yield.
add_answer_logs_batch_to_excel ==
    /\ sheet.pc = "append"
    /\ \E ok \in Outcomes :
         LET ws == save_load(sheet.ws)
             next_row == find_next_available_row(ws, START_ROW)
         IN
         /\ Fault(ok)
         /\ SetSheet([sheet EXCEPT
                        !.pc = IF stream_goes_on(Len(sheet.batch), sheet.page) THEN "fetch"
                               ELSE "done",
                        !.page = @ + 1,
                        !.batch = <<>>,
                        !.ws = IF ok THEN save_load(write_rows(ws, next_row, sheet.batch))
                               ELSE @])

SheetNext ==
    \/ get_answer_logs_batches
    \/ add_answer_logs_batch_to_excel

SheetSpec == SheetInit /\ [][SheetNext]_vars

\* ------------------------------------------------------ the download sink

\* What a builder can hand to the sink: a handle whose fields are present,
\* absent or empty, or a workbook in memory.
HandleKeys == {KeyNames[1], None, ""}
HandleUrls == {UrlNames[1], None, ""}
HandleBuckets == {"sh-reporting-dev", None, ""}
ExportResults ==
    {[kind |-> "dict", s3_key |-> k, download_url |-> u, s3_bucket |-> b] :
        k \in HandleKeys, u \in HandleUrls, b \in HandleBuckets}
    \cup {[kind |-> "BytesIO", s3_key |-> None, download_url |-> None, s3_bucket |-> None]}

\* _handle_legacy_result, line 89: the bucket the sink reports for a workbook
\* it uploaded itself.
LEGACY_BUCKET == "sifthub-exports"

SinkInit ==
    /\ QuietBatch
    /\ upstream = 0
    /\ stream = NoStream
    /\ upload = NoUpload
    /\ lookup = NoLookup
    /\ suffix = NoSuffix
    /\ freq = NoFreq
    /\ faq = NoFaq
    /\ sheet = NoSheet
    /\ sink \in {[NoSink EXCEPT !.pc = "start", !.export_result = e] : e \in ExportResults}
    /\ cache = NoCache
    /\ poll = NoPoll
    /\ ack = NoAck

SetSink(v) ==
    /\ sink' = v
    /\ UNCHANGED <<signalled, expired, cache, poll, ack, driver, records, idx, job, writes, notifs, audit, store,
                   upstream, bucket_name, now, processed, batch_item_failures, response,
                   deleted, running, cpc, faults, stream, upload, lookup, suffix, freq, faq,
                   sheet>>

\* The sink is about to notify and to return `result`.
sink_returns(v, download_url, status, result) ==
    [v EXCEPT !.pc = "notify",
              !.notified = Append(@, [download_url |-> download_url, status |-> status]),
              !.result = result]

\* The result of the sink when an exception reached the except clause of
\* deliver_export, lines 24-28: FAILED is notified with an empty URL.
sink_failed(v) ==
    sink_returns(v, "", "FAILED",
                 [success |-> FALSE, s3_bucket |-> None, s3_key |-> None, download_url |-> None])

\* deliver_export, lines 17-22: a dict goes to _handle_streaming_result, which
\* forwards a complete handle and raises on an incomplete one; anything else
\* goes to _handle_legacy_result, which first builds the key.
sink_deliver_export ==
    /\ sink.pc = "start"
    /\ IF sink.export_result.kind = "dict"
         THEN LET r == download_deliver_export(sink.export_result) IN
              SetSink(IF r.success
                        THEN sink_returns(sink, r.notify_url, r.notify_status,
                                          [success |-> TRUE, s3_bucket |-> r.s3_bucket,
                                           s3_key |-> r.s3_key,
                                           download_url |-> r.download_url])
                        ELSE sink_failed(sink))
         ELSE SetSink([sink EXCEPT !.pc = "upload", !.s3_key = generate_s3_key(now)])

\* _handle_legacy_result, lines 72-75: the upload; a put that gives False
\* raises.
handle_legacy_upload ==
    /\ sink.pc = "upload"
    /\ \E ok \in BOOLEAN :
         LET v == [sink EXCEPT !.storage = Append(@, [op |-> "upload", key |-> sink.s3_key,
                                                      ok |-> ok])]
         IN SetSink(IF ok THEN [v EXCEPT !.pc = "presign"] ELSE sink_failed(v))

\* _handle_legacy_result, lines 77-92: the URL; no URL raises, a URL is
\* notified with SUCCESS and returned with the key.
handle_legacy_presign ==
    /\ sink.pc = "presign"
    /\ \E ok \in BOOLEAN :
         LET v == [sink EXCEPT !.storage = Append(@, [op |-> "presign", key |-> sink.s3_key,
                                                      ok |-> ok])]
             url == presigned_url(sink.s3_key)
         IN SetSink(IF ok
                      THEN sink_returns(v, url, "SUCCESS",
                                        [success |-> TRUE, s3_bucket |-> LEGACY_BUCKET,
                                         s3_key |-> sink.s3_key, download_url |-> url])
                      ELSE sink_failed(v))

\* _send_firebase_notification, lines 98-120: the publisher is called; what
\* it gives, or raises, is logged, and the sink returns its result.
sink_send_firebase_notification ==
    /\ sink.pc = "notify"
    /\ \E published \in BOOLEAN :
         SetSink([sink EXCEPT !.pc = "done", !.published = published])

SinkNext ==
    \/ sink_deliver_export
    \/ handle_legacy_upload
    \/ handle_legacy_presign
    \/ sink_send_firebase_notification

SinkSpec == SinkInit /\ [][SinkNext]_vars

\* ------------------------------------------------------ the GUID cache

\* The users whose GUIDs are looked up, as (user_id, client_id, product_id).
UserIds == {1, 2}
ClientIds == {1, 2}
ProductIds == {1}

\* __build_hash_key_by_user_id: CLIENT_{client_id}_PRODUCT_{product_id}_USERID_{user_id},
\* noted as the sequence of its three numbers.
build_hash_key_by_user_id(user_id, client_id, product_id) == <<client_id, product_id, user_id>>

HashKeys ==
    {build_hash_key_by_user_id(u, c, p) : u \in UserIds, c \in ClientIds, p \in ProductIds}

\* The hash USER_ROLE_ACCESS holds the role data of some users; `hash` is the
\* set of its fields.
CacheInit ==
    /\ QuietBatch
    /\ upstream = 0
    /\ stream = NoStream
    /\ upload = NoUpload
    /\ lookup = NoLookup
    /\ suffix = NoSuffix
    /\ freq = NoFreq
    /\ faq = NoFaq
    /\ sheet = NoSheet
    /\ sink = NoSink
    /\ cache \in {[NoCache EXCEPT !.hash = h] : h \in SUBSET HashKeys}
    /\ poll = NoPoll
    /\ ack = NoAck

SetCache(v) ==
    /\ cache' = v
    /\ UNCHANGED <<signalled, expired, driver, records, idx, job, writes, notifs, audit, store,
                   upstream, bucket_name, now, processed, batch_item_failures, response,
                   deleted, running, cpc, faults, stream, upload, lookup, suffix, freq, faq,
                   sheet, sink, poll, ack>>

\* find_role_mapping_by_user_id, lines 14-21: read the field of the user in
\* the hash; on a hit return it, on a miss go and load it.
find_role_mapping_by_user_id ==
    /\ cache.pc = "idle"
    /\ Len(cache.lookups) < MaxLookups
    /\ \E u \in UserIds, c \in ClientIds, p \in ProductIds :
         LET hash_key == build_hash_key_by_user_id(u, c, p) IN
         SetCache(IF hash_key \in cache.hash
                    THEN [cache EXCEPT !.lookups = Append(@, [hash_key |-> hash_key, hit |-> TRUE,
                                                               http |-> FALSE, found |-> TRUE])]
                    ELSE [cache EXCEPT !.pc = "load", !.hash_key = hash_key])

\* load_user_role_data_by_user_id, lines 24-26: a GET on the user-role
\* service, whose answer is returned as it is; nothing is written to the
\* hash by the worker.  The service answers with the role data or with an
\* empty body, and what it does to the hash on its side is its own affair:
\* it may have stored the field, or not.
load_user_role_data_by_user_id ==
    /\ cache.pc = "load"
    /\ \E found \in BOOLEAN, stored_by_service \in BOOLEAN :
         /\ stored_by_service => found
         /\ SetCache([cache EXCEPT
                        !.pc = "idle",
                        !.hash_key = <<>>,
                        !.hash = IF stored_by_service THEN @ \cup {cache.hash_key} ELSE @,
                        !.lookups = Append(@, [hash_key |-> cache.hash_key, hit |-> FALSE,
                                               http |-> TRUE, found |-> found])])

CacheNext ==
    \/ find_role_mapping_by_user_id
    \/ load_user_role_data_by_user_id

CacheSpec == CacheInit /\ [][CacheNext]_vars

\* ------------------------------------------------------ the polling loop
\* SQSConsumer (sqs_consumer.py) with a queue that holds more messages than
\* one receive may return.  The messages are counted, not told apart: what a
\* pipeline does with its message is the business of the consumer path above;
\* here a pipeline ends by having deleted its message, by leaving it on the
\* queue, or by an exception that _process_message logs (lines 137-139).

\* The queue holds at most MaxQueue messages.
MaxQueue == 12

\* __init__, line 24: MaxNumberOfMessages of every receive.
max_messages == 10

\* How a pipeline ends: the message was deleted (lines 117-120, 126-128,
\* 133-135), it was left on the queue because the export failed (lines
\* 129-131), or an exception was logged and the message left (lines 137-139).
TaskOutcomes == {"deleted", "left", "raised"}

PollInit ==
    /\ QuietBatch
    /\ upstream = 0
    /\ stream = NoStream
    /\ upload = NoUpload
    /\ lookup = NoLookup
    /\ suffix = NoSuffix
    /\ freq = NoFreq
    /\ faq = NoFaq
    /\ sheet = NoSheet
    /\ sink = NoSink
    /\ cache = NoCache
    /\ poll \in {[NoPoll EXCEPT !.visible = n] : n \in 0..MaxQueue}
    /\ ack = NoAck

SetPoll(v) ==
    /\ poll' = v
    /\ UNCHANGED <<signalled, expired, driver, records, idx, job, writes, notifs, audit, store,
                   upstream, bucket_name, now, processed, batch_item_failures, response,
                   deleted, running, cpc, faults, stream, upload, lookup, suffix, freq, faq,
                   sheet, sink, cache, ack>>

\* start_consuming, lines 52-58: running is set and the client is opened.
poll_start_consuming ==
    /\ poll.pc = "init"
    /\ SetPoll([poll EXCEPT !.pc = "loop", !.running = TRUE])

\* The loop test of line 59: while running, a receive is issued (lines 62-68);
\* once stop_consuming has cleared the flag the loop is left (lines 99-100).
poll_while_running ==
    /\ poll.pc = "loop"
    /\ SetPoll([poll EXCEPT !.pc = IF poll.running THEN "receiving" ELSE "stopped"])

\* The messages one receive may return: none, or any number of the visible
\* ones up to MaxNumberOfMessages.
received(visible) == 0..(IF visible < max_messages THEN visible ELSE max_messages)

\* The receive returns, lines 70-86: with no message the loop goes round
\* (lines 71-73); otherwise one task is created for every message of the
\* response (lines 78-83) and the loop waits in gather (line 86).
poll_receive_message ==
    /\ poll.pc = "receiving"
    /\ \E n \in received(poll.visible) :
         SetPoll(IF n = 0
                   THEN [poll EXCEPT !.pc = "loop"]
                   ELSE [poll EXCEPT !.pc = "gather",
                                     !.visible = @ - n,
                                     !.batch = n,
                                     !.in_flight = @ + n,
                                     !.finished = 0,
                                     !.raised = 0])

\* A receive error that is not caught inside the loop: the loop is left.
poll_receive_error_leaving ==
    /\ poll.pc = "receiving"
    /\ SetPoll([poll EXCEPT !.pc = "stopped", !.erred = TRUE])

\* The receive raises, lines 88-94: a ClientError or any other exception is
\* logged and the loop sleeps five seconds.
poll_receive_error ==
    /\ poll.pc = "receiving"
    /\ SetPoll([poll EXCEPT !.pc = "sleep", !.erred = TRUE])

\* asyncio.sleep(5) of lines 90 and 94 is over: back to the loop test.
poll_sleep ==
    /\ poll.pc = "sleep"
    /\ SetPoll([poll EXCEPT !.pc = "loop"])

\* _process_message, lines 102-139, of one task in flight comes to its end.
\* A message that was not deleted is on the queue again once its visibility
\* timeout has passed.
poll_process_message ==
    /\ poll.pc = "gather"
    /\ poll.in_flight > 0
    /\ \E outcome \in TaskOutcomes :
         SetPoll([poll EXCEPT
                    !.in_flight = @ - 1,
                    !.finished = @ + 1,
                    !.raised = IF outcome = "raised" THEN @ + 1 ELSE @,
                    !.visible = IF outcome = "deleted" THEN @ ELSE @ + 1])

\* A gather that returns with the first task that is done.
poll_gather_first_completed ==
    /\ poll.pc = "gather"
    /\ poll.finished > 0
    /\ SetPoll([poll EXCEPT !.pc = "loop"])

\* asyncio.gather(*tasks, return_exceptions=True), line 86: returns when
\* every task of the batch is done, whatever the tasks returned or raised.
poll_gather ==
    /\ poll.pc = "gather"
    /\ poll.in_flight = 0
    /\ SetPoll([poll EXCEPT !.pc = "loop"])

\* stop_consuming, lines 169-172, called from a signal handler at any time.
poll_stop_consuming ==
    /\ poll.pc \notin {"init", "stopped"}
    /\ poll.running
    /\ SetPoll([poll EXCEPT !.running = FALSE])

\* The steps of the consumer's own coroutines.
PollLoop ==
    \/ poll_start_consuming
    \/ poll_while_running
    \/ poll_receive_message
    \/ poll_sleep
    \/ poll_process_message
    \/ poll_gather

PollNext ==
    \/ PollLoop
    \/ poll_receive_error
    \/ poll_stop_consuming

PollSpec == PollInit /\ [][PollNext]_vars

\* The event loop runs every coroutine that is ready: the polling loop and
\* each task take their next step when they can.  A receive error and a
\* call of stop_consuming come from outside and need not happen.
PollLiveSpec == PollInit /\ [][PollNext]_vars /\ WF_vars(PollLoop)

\* ------------------------------------------------- acknowledge or redrive
\* One message and one outcome of its pipeline, given to the batch handler
\* (sqs_listener.py) and to SQSConsumer._process_message (sqs_consumer.py).
\* Each of the two ends by acknowledging the message, which takes it off the
\* queue, or by leaving it to be redriven.

\* What the pipeline of a job does: it returns True, returns False, or raises.
PipelineOutcomes == {"True", "False", "raise"}

AckInit ==
    /\ QuietBatch
    /\ upstream = 0
    /\ stream = NoStream
    /\ upload = NoUpload
    /\ lookup = NoLookup
    /\ suffix = NoSuffix
    /\ freq = NoFreq
    /\ faq = NoFaq
    /\ sheet = NoSheet
    /\ sink = NoSink
    /\ cache = NoCache
    /\ poll = NoPoll
    /\ ack \in {[NoAck EXCEPT !.record = r, !.outcome = o] :
                  r \in {BadJson, Poison} \cup JobBodies, o \in PipelineOutcomes}

SetAck(v) ==
    /\ ack' = v
    /\ UNCHANGED <<signalled, expired, driver, records, idx, job, writes, notifs, audit, store,
                   upstream, bucket_name, now, processed, batch_item_failures, response,
                   deleted, running, cpc, faults, stream, upload, lookup, suffix, freq, faq,
                   sheet, sink, cache, poll>>

\* sqs_listener.process_message, lines 33-50, with handle_event
\* (export_event_handler.py, lines 16-23): a body that is not JSON, a body
\* that SQSExportMessage(**event_context) rejects and a pipeline that raises
\* are all caught and give False; otherwise the value of the pipeline.
ack_listener_process_message ==
    /\ ack.processed = None
    /\ SetAck([ack EXCEPT !.processed =
                 IF ~ack.record.json \/ ack.record.eventId = None THEN "False"
                 ELSE IF ack.outcome = "True" THEN "True" ELSE "False"])

\* sqs_listener.handle_records, lines 20-27: a record whose processing gave
\* False goes on the batchItemFailures list and is redriven; any other is
\* acknowledged with the batch.
ack_handle_records ==
    /\ ack.processed /= None
    /\ ack.batch_handler = None
    /\ SetAck([ack EXCEPT !.batch_handler =
                 IF ack.processed = "False" THEN "redrive" ELSE "acknowledge"])

\* SQSConsumer._process_message, lines 102-139: a body that is not JSON
\* (lines 133-135) and a message that fails validation (lines 117-120) are
\* deleted, as is a message whose pipeline returned True (lines 125-128); a
\* message whose pipeline returned False or raised is left (lines 129-131,
\* 137-139).
ack_consumer_process_message ==
    /\ ack.consumer = None
    /\ SetAck([ack EXCEPT !.consumer =
                 IF ~ack.record.json THEN "acknowledge"
                 ELSE IF ~validate_message(from_dict(ack.record)) THEN "acknowledge"
                 ELSE IF ack.outcome = "True" THEN "acknowledge" ELSE "redrive"])

AckNext ==
    \/ ack_listener_process_message
    \/ ack_handle_records
    \/ ack_consumer_process_message

AckSpec == AckInit /\ [][AckNext]_vars

\* ---------------------------------------------------------------- clock

\* A job is about to read the clock: the timestamp of the object key, or the
\* end time of the elapsed seconds (line 73).
ReadsClock(i) ==
    \/ job[i].pc = "init_excel"
    \/ job[i].pc = "delivered" /\ job[i].delivery_result.success

\* Time passes while a workbook is set up and while it is built and
\* delivered.
Tick ==
    /\ now < MaxClock
    /\ \E i \in Att : ReadsClock(i)
    /\ now' = now + 1
    /\ UNCHANGED <<faults, stream, upload, signalled, expired, lookup, suffix, freq, faq, sheet, sink, cache, poll, ack, driver, records, idx, job, writes, notifs, audit, store, upstream,
                   bucket_name, processed, batch_item_failures, response, deleted, running, cpc>>

BatchNext ==
    \/ \E i \in Att : process_message(i)
    \/ \E i \in Att : mark_processing(i)
    \/ \E i \in Att : process_export(i)
    \/ \E i \in Att : initialize_excel_structure(i)
    \/ \E i \in Att : fetch_batch(i)
    \/ \E i \in Att : add_batch_to_excel(i)
    \/ \E i \in Att : generate_presigned_url(i)
    \/ \E i \in Att : export_failed(i)
    \/ \E i \in Att : deliver(i)
    \/ \E i \in Att : mark_success(i)
    \/ \E i \in Att : notify_success(i)
    \/ \E i \in Att : mark_failed(i)
    \/ \E i \in Att : notify_failed(i)
    \/ \E i \in Att : handle_records(i)
    \/ handle_records_return

ConsumerNext ==
    \/ start_consuming
    \/ receive_message
    \/ gather
    \/ stop_consuming
    \/ consumer_stopped
    \/ \E i \in Att : consumer_process_message(i)
    \/ \E i \in Att : service_mark_processing(i)
    \/ \E i \in Att : service_process_export(i)
    \/ \E i \in Att : service_export_failed(i)
    \/ \E i \in Att : service_deliver(i)
    \/ \E i \in Att : service_finish(i)
    \/ \E i \in Att : consumer_process_message_end(i)

Next ==
    \/ BatchNext
    \/ ConsumerNext
    \/ Tick

Spec == Init /\ [][Next]_vars

\* ------------------------------------------- the long-polling consumer alone

\* start_consuming, line 66: the messages of a receive are hidden from other
\* consumers for visibility_timeout seconds.  The time passes while tasks of
\* the batch are still at work; the consumer arms no timer and no task reads
\* the clock against it.
visibility_timeout_passes ==
    /\ driver = "consumer"
    /\ cpc = "gather" /\ ~expired
    /\ \E i \in DOMAIN records : job[i].pc /= "done"
    /\ expired' = TRUE
    /\ UNCHANGED <<faults, stream, upload, signalled, lookup, suffix, freq, faq, sheet, sink, cache, poll, ack, driver, records, idx, job, writes, notifs, audit, store,
                   upstream, bucket_name, now, processed, batch_item_failures, response, deleted,
                   running, cpc>>

\* A batch waiting in the queue of the long-polling consumer.
ConsumerInit == Init /\ driver = "consumer"

ConsumerLoopNext ==
    \/ ConsumerNext
    \/ visibility_timeout_passes

ConsumerSpec == ConsumerInit /\ [][ConsumerLoopNext]_vars

\* ------------------------------------------------- the batch handler alone

\* A batch of job messages handed to the batch handler.
BatchInit ==
    /\ Init
    /\ driver = "lambda"
    /\ \A i \in DOMAIN records : records[i] \in JobBodies

BatchHandlerNext ==
    \/ BatchNext
    \/ Tick

BatchSpec == BatchInit /\ [][BatchHandlerNext]_vars

\* ------------------------------------------------------------ redelivery

\* The queue delivers the job message a second time while an attempt on an
\* earlier delivery is running, and another invocation of the handler starts
\* process_message on it.  The second delivery is a later record of the
\* batch of the model; the outcome of its attempt is collected as that
\* record's.
process_message_redelivered(i) ==
    /\ driver = "lambda"
    /\ idx \in DOMAIN records /\ i \in DOMAIN records /\ i > idx
    /\ records[i].json /\ records[i].eventId /= None
    /\ job[idx].pc \notin {"idle", "returned", "done"}
    /\ job[i].pc = "idle"
    /\ SetJob(i, [job[i] EXCEPT !.pc = "mark_processing", !.start_time = now])
    /\ UNCHANGED <<faults, stream, upload, signalled, expired, lookup, suffix, freq, faq, sheet, sink, cache, poll, ack, driver, records, idx, writes, notifs, audit, store, upstream,
                   bucket_name, now, processed, batch_item_failures, response, deleted, running,
                   cpc>>

\* A batch handed to the batch handler.
RedeliveryInit == Init /\ driver = "lambda"

RedeliveryNext ==
    \/ BatchNext
    \/ Tick
    \/ \E i \in Att : process_message_redelivered(i)

RedeliverySpec == RedeliveryInit /\ [][RedeliveryNext]_vars

\* ----------------------------------------------------------- properties

Last(s) == s[Len(s)]

TerminalStatuses == {"SUCCESS", "FAILED"}

\* Record i carried a job message and its router call has returned.
AttemptEnded(i) ==
    /\ i \in DOMAIN records
    /\ records[i].json /\ records[i].eventId /= None
    /\ processed[i] /= None

\* The router call of record i is returning: its locals are still there.
AtReturn(i) == AttemptEnded(i) /\ job[i].pc \in {"returned", "service_returned"}

\* The builder of attempt i has been invoked.
BuilderInvoked(i) ==
    \/ job[i].pc \in {"init_excel", "fetch", "append", "presign", "service_built"}
    \/ job[i].s3_key /= None
    \/ job[i].export_file /= None

C6_ProcessingFirst ==
    \A i \in Att :
      /\ \A k \in DOMAIN writes[i] : writes[i][k].status \in {"PROCESSING", "SUCCESS", "FAILED"}
      /\ Len(writes[i]) > 0 => writes[i][1].status = "PROCESSING"
      /\ BuilderInvoked(i) => Len(writes[i]) > 0
      /\ \A k \in DOMAIN writes[i] : k > 1 => writes[i][k].status /= "PROCESSING"

\* A builder is at work with the PROCESSING write as the only write so far.
C6_Witness ==
    \E i \in DOMAIN records :
      /\ job[i].pc = "fetch"
      /\ Len(writes[i]) = 1 /\ writes[i][1].status = "PROCESSING"

\* C7: a FAQ job one of whose append cycles lost its download or upload ends
\* with no handle, a FAILED write and no notification carrying a URL.
C7_StorageFaultFails ==
    \A i \in Att :
      (AtReturn(i) /\ records[i].report = FAQ /\ job[i].storage_fault) =>
          /\ job[i].export_file = None
          /\ Last(writes[i]).status = "FAILED"
          /\ \A k \in DOMAIN notifs[i] : ~Truthy(notifs[i][k].downloadUrl)

C9_FailedNotified ==
    \A i \in Att :
      (AttemptEnded(i) /\ Last(writes[i]).status = "FAILED") =>
          \E k \in DOMAIN notifs[i] :
             /\ notifs[i][k].status = "FAILED"
             /\ notifs[i][k].downloadUrl = ""
             /\ notifs[i][k].message = "Export failed"

\* C10: a message without eventId is not reported as a batch item failure
\* and causes no audit write and no notification.
C10_PoisonAcknowledged ==
    \A i \in DOMAIN records :
      records[i] = Poison =>
          /\ writes[i] = <<>> /\ notifs[i] = <<>>
          /\ (driver = "lambda" /\ response = "returned") =>
                \A k \in DOMAIN batch_item_failures : batch_item_failures[k].itemIdentifier /= i

\* The records of the batch that carry a job message.
JobRecords == {i \in DOMAIN records : records[i].json /\ records[i].eventId /= None}

\* No builder is registered for the report of record i on the path of the
\* driver.
Unsupported(i) ==
    IF driver = "lambda" THEN get_type_processor(records[i].report) = None
    ELSE export_factory_create_processor(records[i].report) = None

\* C11: a job whose (module, type, subType) has no registered builder ends
\* with a FAILED write and a failure notification, and its message is
\* acknowledged: it is not listed in batchItemFailures, and the long-polling
\* consumer deletes it.
C11_UnsupportedAcknowledged ==
    \A i \in JobRecords :
      (Unsupported(i) /\ AttemptEnded(i)) =>
          /\ Last(writes[i]).status = "FAILED"
          /\ \E k \in DOMAIN notifs[i] : notifs[i][k].status = "FAILED"
          /\ (driver = "lambda" /\ response = "returned") =>
                \A k \in DOMAIN batch_item_failures : batch_item_failures[k].itemIdentifier /= i
          /\ (driver = "consumer" /\ job[i].pc = "done" /\ faults = 0) => i \in deleted

Ceil(n, d) == (n + d - 1) \div d

\* C16 as stated: a stream that ended without a failed call has yielded
\* ceil(N / pageSize) pages.
C16_PageCount ==
    (stream.reader = "get_answer_logs_batches" /\ stream.pc = "done" /\ faults = 0) =>
        stream.yielded = Ceil(upstream, PageSize)

\* C16: a page stream requests the pages 1, 2, 3, ... in this order; when it
\* ended without a failed call it has yielded ceil(N / pageSize) pages, at
\* most MAX_PAGES, and has requested no page after an empty or short one.
C16_PageCountCapped ==
    stream.reader = "get_answer_logs_batches" =>
      /\ stream.requests = stream.requested
      /\ stream.pc = "request" => stream.page = stream.requests + 1
      /\ (stream.pc = "done" /\ faults = 0) =>
            /\ stream.yielded = Min(Ceil(upstream, PageSize), MAX_PAGES)
            /\ stream.requests =
                  IF stream.yielded = MAX_PAGES THEN MAX_PAGES
                  ELSE IF upstream % PageSize = 0 THEN stream.yielded + 1
                  ELSE stream.yielded

\* A stream over MaxItems items has ended after more than one page.
C16_Witness ==
    /\ stream.reader = "get_answer_logs_batches" /\ stream.pc = "done" /\ faults = 0
    /\ upstream = MaxItems
    /\ stream.yielded = Ceil(MaxItems, PageSize) /\ stream.yielded > 1

\* C17: no paginated reader requests or yields more than MAX_PAGES pages.
C17_PageCap ==
    /\ stream.requests <= MAX_PAGES
    /\ stream.yielded <= MAX_PAGES

\* C18: when a put has returned, its multipart upload, if one was created, is
\* completed or aborted; and a put whose multipart upload was created and not
\* completed has issued the abort and reports failure.
C18_NoOrphanUpload ==
    upload.pc = "done" =>
      /\ upload.multipart \in {None, "completed", "aborted"}
      /\ (upload.upload_id /= None /\ upload.multipart /= "completed") =>
            (upload.abort_issued /\ upload.result = "False")

\* The pipeline of attempt i has put its workbook under its key and has not
\* finished appending to it.
WriteInFlight(i) == job[i].pc \in {"fetch", "append"}

KnownReport(report) ==
    \/ /\ report.module = "insights" /\ report.type = "responseGeneration"
       /\ report.subType = "frequentAskedQuestions"
    \/ /\ report.module = "usageLogs" /\ report.type \in {"answer", "autofill", "AITeammate"}

\* C24: a registry hands out a processor for the four known (module, type,
\* subType) entries, and for every other no builder runs.
C24_RegistryExact ==
    /\ lookup.pc \in {"created", "done"} =>
          (KnownReport(lookup.report) => lookup.processor /= None)
    /\ lookup.pc = "done" => (~KnownReport(lookup.report) => lookup.builder = None)

\* C25: wherever the suffix of a message is computed, it is All when the
\* status data contains ANSWERED#@#NO_INFORMATION#@#PARTIAL, else Answered
\* when it contains ANSWERED#@#PARTIAL, else Unanswered when it contains
\* NO_INFORMATION, and All in every other case; so all places agree.
C25_SuffixAgrees ==
    LET f == suffix.filter
        expected == IF ~(f.present /\ f.status) THEN "All"
                    ELSE IF Contains(f.data, ALL_STATUSES) THEN "All"
                    ELSE IF Contains(f.data, ANSWERED_STATUSES) THEN "Answered"
                    ELSE IF Contains(f.data, UNANSWERED_STATUSES) THEN "Unanswered"
                    ELSE "All"
    IN \A v \in {suffix.sheet, suffix.key, suffix.filename, suffix.service_sheet} :
          v /= None => v = expected

\* C26: the frequency written in a category or sub-category row is
\* floor(total * distribution / 100), with total the count the info cards
\* give for the suffix of the job.
C26_FrequencyFromInfoCards ==
    LET total == IF freq.sheet_suffix = "All" THEN freq.totalQuestions
                 ELSE IF freq.sheet_suffix = "Answered" THEN freq.totalQuestionsAnswered
                 ELSE freq.totalQuestions - freq.totalQuestionsAnswered
    IN \A v \in {freq.category, freq.subcategory, freq.service_category,
                  freq.service_subcategory} :
          v /= NoObject => v = (total * freq.distribution) \div 100

\* The logs of the pages appended so far, as they were streamed.
Appended == (sheet.page - 1) * PageSize

\* C29: while no call has failed, the logs sheet holds one data row for every
\* log of the pages appended so far, in rows without a gap from the first
\* data row on and in the order of the stream; so no append has written over
\* a row of an earlier page, and after the stream the sheet holds as many
\* data rows as the stream had logs.
C29_RowsFollowStream ==
    (sheet.pc \in {"fetch", "done"} /\ faults = 0) =>
      LET n == Min(Len(sheet.data), Appended) IN
      /\ DOMAIN sheet.ws = START_ROW..(START_ROW + n - 1)
      /\ \A r \in DOMAIN sheet.ws : sheet.ws[r].log = r - START_ROW + 1

\* The sizes of the first n parts of a multipart upload, added up.
RECURSIVE SizeOfParts(_, _)
SizeOfParts(parts, n) == IF n = 0 THEN 0 ELSE parts[n].size + SizeOfParts(parts, n - 1)

\* C30: a put issues its single put-object call only for a file of at most
\* MULTIPART_THRESHOLD MiB and opens a multipart upload only for a larger
\* one; the parts are numbered 1, 2, ... without a gap, every part but the
\* last has PART_SIZE MiB and the last at most that, the parts uploaded so
\* far are the stream read so far; the completion call is issued at most
\* once, when the parts are the whole stream, with all of them in ascending
\* order; and a put that returned true made exactly one of the two.
C30_PutBySize ==
    /\ upload.put_calls > 0 =>
         (upload.file_size <= MULTIPART_THRESHOLD /\ upload.put_calls = 1
          /\ upload.upload_id = None /\ upload.parts = <<>>)
    /\ (upload.pc \in {"create", "part", "complete", "abort"} \/ upload.upload_id /= None) =>
         (upload.file_size > MULTIPART_THRESHOLD /\ upload.put_calls = 0)
    /\ \A k \in DOMAIN upload.parts :
         /\ upload.parts[k].PartNumber = k
         /\ upload.parts[k].size \in 1..PART_SIZE
         /\ k < Len(upload.parts) => upload.parts[k].size = PART_SIZE
    /\ upload.pc \in {"part", "complete"} =>
         SizeOfParts(upload.parts, Len(upload.parts)) = upload.offset
    /\ upload.complete_calls <= 1
    /\ upload.complete_calls = 1 =>
         /\ SizeOfParts(upload.parts, Len(upload.parts)) = upload.file_size
         /\ Len(upload.parts) = Ceil(upload.file_size, PART_SIZE)
         /\ upload.completed_with = [k \in 1..Len(upload.parts) |-> k]
    /\ (upload.pc = "done" /\ upload.result = "True") =>
         IF upload.file_size <= MULTIPART_THRESHOLD
           THEN upload.put_calls = 1 /\ upload.complete_calls = 0
           ELSE upload.put_calls = 0 /\ upload.complete_calls = 1

\* A file of two full parts and one MiB more was put in three parts and
\* completed.
C30_Witness ==
    /\ upload.pc = "done"
    /\ upload.result = "True"
    /\ upload.file_size = 2 * PART_SIZE + 1
    /\ upload.parts = <<[PartNumber |-> 1, size |-> PART_SIZE],
                        [PartNumber |-> 2, size |-> PART_SIZE],
                        [PartNumber |-> 3, size |-> 1]>>
    /\ upload.completed_with = <<1, 2, 3>>

\* The page calls of one kind among the calls of the builder, in the order
\* they were issued.
CallsOf(kind) == SelectSeq(faq.calls, LAMBDA c : c[1] = kind)

\* The category ids of the first-page calls of the sub-category streams.
SubcategoryStreams ==
    LET first == SelectSeq(faq.calls, LAMBDA c : c[1] = "subcategory" /\ c[3] = 1)
    IN [k \in DOMAIN first |-> first[k][2]]

\* The rows the second sheet holds for one category.
RowsOf(id) == SelectSeq(faq.sheet2, LAMBDA r : r[1] = id)

\* C27: a page call that fails ends its own stream and nothing else: the
\* pages the stream yielded before stay in their sheet, every later stream is
\* still read, and the builder returns its handle.
C27_StreamEndsAlone ==
    /\ \A call \in faq.failed :
         /\ call[1] = "category" =>
              faq.sheet1 = [k \in 1..((call[3] - 1) * PageSize) |-> k]
         /\ call[1] = "subcategory" =>
              Len(RowsOf(call[2])) >= (call[3] - 1) * PageSize
         /\ call[1] = "questions" =>
              faq.sheet3 = [k \in 1..((call[3] - 1) * PageSize) |-> k]
    /\ faq.pc = "done" =>
         /\ faq.result = "handle"
         /\ Len(CallsOf("questions")) > 0
         /\ \A k \in DOMAIN faq.category_ids :
              \E c \in DOMAIN faq.calls :
                faq.calls[c] = <<"subcategory", faq.category_ids[k], 1>>

\* The second page of the category stream failed; the first page is in the
\* first sheet, the sub-categories and the questions were written, and the
\* builder returned its handle.
C27_Witness ==
    /\ faq.pc = "done"
    /\ <<"category", 0, 2>> \in faq.failed
    /\ Len(faq.sheet1) = PageSize
    /\ Len(faq.sheet2) > 0
    /\ Len(faq.sheet3) > 0
    /\ faq.result = "handle"

\* C28: every sub-category call is issued after the last category call; once
\* the sub-category phase is over, the sub-category streams read are those of
\* the category ids the category stream yielded, one stream per id in the
\* order the ids were observed, and the second sheet holds their rows in that
\* order; with no category id no sub-category call is issued, and the
\* top-question stream is read all the same.
C28_SubcategoriesFollow ==
    /\ \A i, j \in DOMAIN faq.calls :
         (faq.calls[i][1] = "subcategory" /\ faq.calls[j][1] = "category") => j < i
    /\ faq.category_ids = faq.sheet1
    /\ faq.pc \in {"questions", "done"} =>
         /\ SubcategoryStreams = faq.category_ids
         /\ \A k \in 1..(Len(faq.sheet2) - 1) : faq.sheet2[k][1] <= faq.sheet2[k + 1][1]
         /\ \A k \in DOMAIN faq.sheet2 :
              \E c \in DOMAIN faq.category_ids : faq.category_ids[c] = faq.sheet2[k][1]
         /\ faults = 0 =>
              \A k \in DOMAIN faq.category_ids :
                RowsOf(faq.category_ids[k]) =
                  [n \in 1..faq.subcategories |-> <<faq.category_ids[k], n>>]
         /\ faq.category_ids = <<>> => Len(CallsOf("subcategory")) = 0
    /\ faq.pc = "done" => Len(CallsOf("questions")) > 0

\* Three categories were yielded over two pages, and the sub-categories of
\* each of them are in the second sheet.
C28_Witness ==
    /\ faq.pc = "done"
    /\ faults = 0
    /\ faq.category_ids = <<1, 2, 3>>
    /\ SubcategoryStreams = <<1, 2, 3>>
    /\ Len(faq.sheet2) = 3 * PageSize

\* The handle given to the sink carries its three fields.
CompleteHandle(e) == Truthy(e.s3_key) /\ Truthy(e.download_url) /\ Truthy(e.s3_bucket)

\* C31: when the download sink has returned: for a complete handle it made no
\* storage call and reports success with the key, the URL and the bucket of
\* the handle; for an incomplete handle it made no storage call and reports
\* failure; for a workbook in memory it reports success exactly when its
\* upload and its presign both succeeded, and then with the key it uploaded
\* to and the URL of that key.
C31_DownloadSink ==
    sink.pc = "done" =>
      LET e == sink.export_result IN
      /\ (e.kind = "dict" /\ CompleteHandle(e)) =>
            /\ sink.storage = <<>>
            /\ sink.result = [success |-> TRUE, s3_bucket |-> e.s3_bucket, s3_key |-> e.s3_key,
                             download_url |-> e.download_url]
      /\ (e.kind = "dict" /\ ~CompleteHandle(e)) =>
            (sink.storage = <<>> /\ ~sink.result.success)
      /\ e.kind = "BytesIO" =>
            /\ sink.result.success <=>
                  sink.storage = <<[op |-> "upload", key |-> sink.s3_key, ok |-> TRUE],
                                   [op |-> "presign", key |-> sink.s3_key, ok |-> TRUE]>>
            /\ \E k \in DOMAIN sink.storage : ~sink.storage[k].ok \/ sink.result.success
            /\ sink.result.success =>
                  (sink.result.s3_key = sink.s3_key
                   /\ sink.result.download_url = presigned_url(sink.s3_key))

\* The sink has forwarded a complete handle.
C31_Witness ==
    /\ sink.pc = "done"
    /\ sink.export_result = [kind |-> "dict", s3_key |-> KeyNames[1],
                             download_url |-> UrlNames[1], s3_bucket |-> "sh-reporting-dev"]
    /\ sink.storage = <<>>
    /\ sink.result.success
    /\ sink.result.s3_key = KeyNames[1]

C35_BatchOfTen ==
    [][/\ poll'.in_flight <= max_messages
       /\ poll'.pc = "receiving" => poll'.in_flight = 0
       /\ (poll.pc = "receiving" /\ poll'.pc = "gather") =>
            /\ poll'.batch = poll.visible - poll'.visible
            /\ poll'.in_flight = poll'.batch]_vars

\* Ten pipelines are in flight while further messages wait on the queue.
C35_Witness ==
    /\ poll.pc = "gather"
    /\ poll.in_flight = max_messages
    /\ poll.visible > 0

\* The audit write issued by the step, if the step issued one.
Written(i) == Last(writes'[i])

C37_SameDecision ==
    (ack.batch_handler /= None /\ ack.consumer /= None) => ack.batch_handler = ack.consumer

\* C38: while the consumer is not stopped, a receive that raised and a
\* pipeline that raised are both followed by another receive, and a batch
\* with a pipeline that raised still has every one of its pipelines finished.
C38_LoopGoesOn ==
    /\ ((poll.erred \/ poll.raised > 0) /\ poll.running)
         ~> (poll.pc = "receiving" \/ ~poll.running)
    /\ (poll.raised > 0) ~> (poll.in_flight = 0 /\ poll.finished = poll.batch)

\* A receive is outstanding after an earlier receive raised and after a
\* pipeline of the last batch, which had several messages, raised.
C38_Witness ==
    /\ poll.pc = "receiving"
    /\ poll.running
    /\ poll.erred
    /\ poll.raised > 0
    /\ poll.batch > 1

\* C21: once SIGINT or SIGTERM was delivered, the consumer issues no receive.
C21_NoReceiveAfterSignal ==
    [][signalled => ~(cpc = "receive" /\ cpc' = "gather")]_vars

\* C22: once the visibility timeout of a batch has passed, the pipeline of a
\* job message of the batch issues no audit write, and the message is not
\* deleted.
C22_CeasesAtDeadline ==
    [][expired => \A i \in JobRecords : /\ writes'[i] = writes[i]
                                        /\ i \in deleted' => i \in deleted]_vars

\* C19: no two pipelines are at work on the workbook of the same storage key
\* at the same time.
C19_OneWriterPerKey ==
    \A i, j \in Att :
      (i /= j /\ WriteInFlight(i) /\ WriteInFlight(j)) => job[i].s3_key /= job[j].s3_key

====
